---- MODULE Spec2Model ----
(***************************************************************************)
(* Verification model of dwarfAlp (acocalypso/dwarfAlp).                   *)
(*                                                                         *)
(* Part 1: the command channel, DwarfWsClient (dwarf/ws_client.py): the    *)
(*   pending table, the alias table, request futures, packet dispatch,     *)
(*   notification fan-out, timeout and disconnect.  Specification SpecWs   *)
(*   drives it with free-standing callers.                                 *)
(* Part 2: the device session, DwarfSession (dwarf/session.py): leasing    *)
(*   (acquire / release / shutdown), _ensure_ws, _bootstrap_ws, the        *)
(*   master-lock protocol and command issuance, as concurrent asyncio      *)
(*   tasks on top of the same command channel.  SpecSession has callers    *)
(*   that acquire, release and call verbs; SpecShutdown has callers that   *)
(*   acquire and call verbs while the application shuts the session down.  *)
(* Part 3: the camera capture pipeline of the session: camera_connect and  *)
(*   camera_disconnect behind the router's put_connected, the start of an  *)
(*   exposure (devices/camera.py start_exposure and camera_start_exposure),*)
(*   camera_abort_exposure, the retrieval task _fetch_capture and          *)
(*   shutdown.  SpecCamera runs them as concurrent calls; the command      *)
(*   channel is taken as a whole there (a command and its answer are one   *)
(*   step).                                                                *)
(*                                                                         *)
(* A step of the model is the code between two suspension points of an     *)
(* asyncio task (an await that really yields), or one event of the         *)
(* environment (a packet arrives, a timer fires, the stream ends).  Tasks  *)
(* that are ready to run do so before the loop takes the next event.       *)
(***************************************************************************)
EXTENDS Integers, Sequences, FiniteSets, TLC

(* ----------------------------- bounds ---------------------------------- *)
NumCallers == 2          \* concurrent callers of the channel (SpecWs)
MaxAlts == 1             \* alternate keys one send_request of SpecWs registers
MaxOps == 3              \* session operations started in one run
MaxFaults == 1           \* failures of the channel or the device in one run (session)

NumTasks == 2            \* concurrent tasks using one DwarfSession
MaxArtifacts == 1        \* artifacts the device stores on each retrieval channel
MaxCamOps == 2           \* camera operations started in one run (SpecCamera)

Callers == 1 .. NumCallers
Tasks == 1 .. NumTasks
Owners == Callers \cup Tasks

(* ------------------- protocol constants (symbolic keys) ---------------- *)
\* (module_id, command_id) pairs; the numeric ids live in protocol_pb2.
KEY_WORKING_STATE == "CAMERA_TELE:GET_SYSTEM_WORKING_STATE"
KEY_OPEN_TELE == "CAMERA_TELE:OPEN_CAMERA"
KEY_OPEN_WIDE == "CAMERA_WIDE:OPEN_CAMERA"
KEY_MASTERLOCK == "SYSTEM:SET_MASTERLOCK"
KEY_SET_TIME == "SYSTEM:SET_TIME"
KEY_FOCUS_STOP == "FOCUS:STOP_ASTRO_FOCUS"
KEY_HS_SYSTEM == "SYSTEM:NOTIFY_WS_HOST_SLAVE_MODE"
KEY_HS_NOTIFY == "NOTIFY:NOTIFY_WS_HOST_SLAVE_MODE"

SessionKeys == {KEY_WORKING_STATE, KEY_OPEN_TELE, KEY_OPEN_WIDE, KEY_MASTERLOCK,
                KEY_SET_TIME, KEY_FOCUS_STOP}
AliasKeys == {KEY_HS_SYSTEM, KEY_HS_NOTIFY}
AllKeys == SessionKeys \cup AliasKeys
\* keys the free-standing callers of SpecWs send, the keys they register as
\* alternates (one of them is also sent as a request), the keys of packets
WsKeys == {KEY_MASTERLOCK, KEY_WORKING_STATE}
WsAliasKeys == {KEY_WORKING_STATE, KEY_HS_SYSTEM}
WsPacketKeys == WsKeys \cup WsAliasKeys

TYPE_REQUEST == 0
TYPE_REQUEST_RESPONSE == 1
TYPE_NOTIFICATION == 2
TYPE_NOTIFICATION_RESPONSE == 3
OK == 0

ComResponse == "ComResponse"
ResNotifyHostSlaveMode == "ResNotifyHostSlaveMode"

\* protobuf payload by field number: ComResponse reads field 1 as code,
\* ResNotifyHostSlaveMode reads field 1 as mode and field 2 as lock.
Payloads == [f1 : {0, 1}, f2 : BOOLEAN]
NoData == [f1 |-> 0, f2 |-> FALSE]

NoKey == "-"
NoCls == "-"
NoPending == [fut |-> 0, response_cls |-> NoCls, alternate_responses |-> <<>>]
NoFuture == [state |-> "none", cls |-> NoCls, data |-> NoData, err |-> "-"]

Handlers == {"h1", "h2"}
NoDelivery == [h \in Handlers |-> 0]

VARIABLES
    connected,          \* DwarfWsClient.connected (_conn set and not closed)
    pending,            \* DwarfWsClient._pending: key -> record
    pending_aliases,    \* DwarfWsClient._pending_aliases: alias key -> key
    future,             \* the asyncio.Future of each caller's request
    notifications,      \* DwarfWsClient._notifications
    delivered,          \* calls each handler got from the packet this step dispatched
    lastOp,             \* the operation the last step performed and its outcome
    call,               \* SpecWs: each caller's send_request call
    task,               \* SpecSession: each task's position
    refs,               \* DwarfSession._refs
    master_lock_acquired, \* DwarfSession._master_lock_acquired
    ws_bootstrapped,    \* DwarfSession._ws_bootstrapped
    time_synced,        \* DwarfSession._time_synced
    locks,              \* owners of _lock, _master_lock_lock, _ws_command_lock
    connBoot,           \* bootstrap commands completed on the current connection
    faults,              \* stream failures injected so far
    opsStarted,         \* session operations started so far
    camera_state,       \* DwarfSession.camera_state
    capture,            \* the retrieval tasks made by camera_start_exposure
    ccall,              \* SpecCamera: each caller's call on the camera
    caches,             \* _params_config, _exposure_resolver, _filter_options
    temperature_task,   \* DwarfSession._temperature_task
    router_connected,   \* devices/camera.py state.connected
    device,             \* latest artifact on the device's FTP service and album
    focuser,            \* DwarfSession.focuser_state and the focuser_move call
    telescope,          \* _manual_axis_rates, _joystick_active, _last_goto_time
    tcall,              \* SpecTelescope: each caller's call on the telescope
    ble,                \* DwarfBleProvisioner.provision: its run and its response queue
    ftp,                \* DwarfFtpClient.wait_for_new_photo: its call and the device's listing
    exposure,           \* ExposureResolver: the metadata, the options and the last choose_index calls
    settings,           \* camera_state's gain and filter fields and the commands of the last call
    unreferenced,       \* a release has closed the channel and no acquire was called since
    overlapped          \* two camera_start_exposure calls have been in progress at once

wsVars == <<connected, pending, pending_aliases, future, notifications, delivered>>
camVars == <<camera_state, capture, ccall, caches, temperature_task,
             router_connected, device>>
deviceVars == <<focuser, telescope, tcall, ble, ftp, exposure, settings>>
devVars == <<deviceVars, unreferenced, overlapped>>
baseVars == <<wsVars, lastOp, call, task, refs, master_lock_acquired, ws_bootstrapped,
              time_synced, locks, connBoot, faults, opsStarted, camVars>>
sessVars == <<task, refs, master_lock_acquired, ws_bootstrapped, time_synced,
              locks, connBoot, faults, opsStarted, camVars, devVars>>
vars == <<connected, pending, pending_aliases, future, notifications, delivered,
          lastOp, call, task, refs, master_lock_acquired, ws_bootstrapped,
          time_synced, locks, connBoot, faults, opsStarted, camera_state, capture,
          ccall, caches, temperature_task, router_connected, device, devVars>>

(* ======================= Part 1: DwarfWsClient ========================= *)

\* _PendingRequest(future, response_cls, alternate_responses)
PendingRequest(c, cls, alts) ==
    [fut |-> c, response_cls |-> cls, alternate_responses |-> alts]

PendingKeys(p) == {k \in AllKeys : p[k] # NoPending}

\* _pop_pending_request with the alias clean-up skipped.
PopPendingRequestKeepAliases(p, a, key) ==
    [pending |-> [p EXCEPT ![key] = NoPending], aliases |-> a, popped |-> p[key]]

\* _pop_pending_request without the test of line 67: every alternate key of
\* the popped request is dropped, whatever key the alias table maps it to.
PopPendingRequestEveryAlias(p, a, key) ==
    LET rec == p[key] IN
    IF rec = NoPending
    THEN [pending |-> p, aliases |-> a, popped |-> NoPending]
    ELSE [pending |-> [p EXCEPT ![key] = NoPending],
          aliases |-> [k \in AllKeys |->
                         IF k \in DOMAIN rec.alternate_responses
                         THEN NoKey ELSE a[k]],
          popped |-> rec]

\* _pop_pending_request: pop the record, drop the aliases that point to key.
PopPendingRequest(p, a, key) ==
    LET rec == p[key] IN
    IF rec = NoPending
    THEN [pending |-> p, aliases |-> a, popped |-> NoPending]
    ELSE [pending |-> [p EXCEPT ![key] = NoPending],
          aliases |-> [k \in AllKeys |->
                         IF k \in DOMAIN rec.alternate_responses /\ a[k] = key
                         THEN NoKey ELSE a[k]],
          popped |-> rec]

\* send_request, lines 139-143: the record and its aliases are registered.
Register(p, a, key, c, cls, alts) ==
    [pending |-> [p EXCEPT ![key] = PendingRequest(c, cls, alts)],
     aliases |-> [k \in AllKeys |-> IF k \in DOMAIN alts THEN key ELSE a[k]]]

\* send_request without the check of line 135.
KeyNeverRefused(p, key) == FALSE

\* send_request, line 135: a key that is already pending is refused.
KeyRefused(p, key) == p[key] # NoPending

\* _dispatch_packet, lines 212-221: no alias lookup at all.
ResolveNoAlias(p, a, key) ==
    LET first == PopPendingRequest(p, a, key) IN
    [pending |-> first.pending, aliases |-> first.aliases, popped |-> first.popped,
     cls |-> IF first.popped # NoPending THEN first.popped.response_cls ELSE NoCls]

\* _dispatch_packet, lines 212-221: the request a packet with this key
\* resolves and the class its payload is parsed into.
Resolve(p, a, key) ==
    LET first == PopPendingRequest(p, a, key) IN
    IF first.popped # NoPending
    THEN [pending |-> first.pending, aliases |-> first.aliases,
          popped |-> first.popped, cls |-> first.popped.response_cls]
    ELSE IF a[key] = NoKey
         THEN [pending |-> p, aliases |-> a, popped |-> NoPending, cls |-> NoCls]
         ELSE LET a2 == [a EXCEPT ![key] = NoKey]
                  second == PopPendingRequest(p, a2, a[key])
                  alts == second.popped.alternate_responses
              IN [pending |-> second.pending, aliases |-> second.aliases,
                  popped |-> second.popped,
                  cls |-> IF second.popped = NoPending THEN NoCls
                          ELSE IF key \in DOMAIN alts THEN alts[key]
                          ELSE second.popped.response_cls]

\* _dispatch_packet, lines 223-233: the popped request's future gets the result.
SetResult(f, res, data) ==
    IF res.popped # NoPending /\ f[res.popped.fut].state = "pending"
    THEN [f EXCEPT ![res.popped.fut] =
             [state |-> "result", cls |-> res.cls, data |-> data, err |-> "-"]]
    ELSE f

\* a fan-out that awaits the handlers one after the other and stops at the
\* first one that raises.
RECURSIVE GatherStopOnRaise(_, _)
GatherStopOnRaise(order, raising) ==
    IF order = <<>> THEN [h \in Handlers |-> 0]
    ELSE IF Head(order) \in raising
         THEN [h \in Handlers |-> IF h = Head(order) THEN 1 ELSE 0]
         ELSE [GatherStopOnRaise(Tail(order), raising) EXCEPT ![Head(order)] = @ + 1]

\* asyncio.gather(*(handler(packet) ...), return_exceptions=True): every
\* handler of the snapshot is called once, a raised exception is collected.
RECURSIVE Gather(_, _)
Gather(order, raising) ==
    IF order = <<>> THEN [h \in Handlers |-> 0]
    ELSE [Gather(Tail(order), raising) EXCEPT ![Head(order)] = @ + 1]

\* _dispatch_packet, lines 235-239: only notifications are fanned out.
FanOut(type, order, raising) ==
    IF type = TYPE_NOTIFICATION THEN Gather(order, raising)
    ELSE [h \in Handlers |-> 0]

\* list(self._notifications): the handlers in some iteration order.
Orders(S) == {o \in UNION {[1 .. n -> S] : n \in 0 .. Cardinality(S)} :
                 /\ Len(o) = Cardinality(S)
                 /\ \A i, j \in 1 .. Len(o) : i # j => o[i] # o[j]}

\* _flush_pending: every future that is not done gets the error.
FlushFutures(f, p, err) ==
    [c \in Owners |->
        IF f[c].state = "pending" /\ \E k \in AllKeys : p[k].fut = c
        THEN [state |-> "exception", cls |-> NoCls, data |-> NoData, err |-> err]
        ELSE f[c]]

EmptyPending == [k \in AllKeys |-> NoPending]
EmptyAliases == [k \in AllKeys |-> NoKey]

Op(name) == [op |-> name, caller |-> 0, key |-> NoKey, type |-> -1,
             outcome |-> "-", sent |-> FALSE, raising |-> {}]

(* send_request, lines 129-162, up to the await of the future.  outcome is
   what happens on the way: the implicit connect() fails, the key is refused,
   the transport send raises, or the frame is sent and the caller waits. *)
SendRequest(c, key, cls, alts, outcome) ==
    /\ outcome \in {"connect_failed", "already_pending", "send_failed", "sent"}
    /\ IF outcome = "connect_failed"
       THEN /\ ~connected
            /\ UNCHANGED <<connected, pending, pending_aliases, future>>
       ELSE /\ connected' = TRUE
            /\ IF KeyRefused(pending, key)
               THEN /\ outcome = "already_pending"
                    /\ UNCHANGED <<pending, pending_aliases, future>>
               ELSE LET reg == Register(pending, pending_aliases, key, c, cls, alts)
                        undo == PopPendingRequest(reg.pending, reg.aliases, key)
                    IN \/ /\ outcome = "sent"
                          /\ pending' = reg.pending
                          /\ pending_aliases' = reg.aliases
                          /\ future' = [future EXCEPT ![c] =
                                 [state |-> "pending", cls |-> NoCls,
                                  data |-> NoData, err |-> "-"]]
                       \/ /\ outcome = "send_failed"
                          /\ pending' = undo.pending
                          /\ pending_aliases' = undo.aliases
                          /\ UNCHANGED future
    /\ delivered' = NoDelivery
    /\ UNCHANGED notifications

(* asyncio.wait_for(future, timeout) expires, lines 158-161: the future is
   cancelled and the except branch pops the caller's key. *)
RequestTimeout(c, key) ==
    /\ future[c].state = "pending"
    /\ LET res == PopPendingRequest(pending, pending_aliases, key) IN
          /\ pending' = res.pending
          /\ pending_aliases' = res.aliases
    /\ future' = [future EXCEPT ![c] =
           [state |-> "cancelled", cls |-> NoCls, data |-> NoData, err |-> "timeout"]]
    /\ delivered' = NoDelivery
    /\ UNCHANGED <<connected, notifications>>

(* _reader_loop reads one frame and runs _dispatch_packet on it. *)
DispatchPacket(key, type, data, order, raising) ==
    /\ connected
    /\ LET res == Resolve(pending, pending_aliases, key) IN
          /\ pending' = res.pending
          /\ pending_aliases' = res.aliases
          /\ future' = SetResult(future, res, data)
    /\ delivered' = FanOut(type, order, raising)
    /\ UNCHANGED <<connected, notifications>>

(* close(), lines 102-114: reader cancelled, connection dropped, flush. *)
Close ==
    /\ connected' = FALSE
    /\ future' = FlushFutures(future, pending, "closed")
    /\ pending' = EmptyPending
    /\ pending_aliases' = EmptyAliases
    /\ delivered' = NoDelivery
    /\ UNCHANGED notifications

(* _reader_loop, lines 200-204: the stream raises a transport error. *)
ReaderError ==
    /\ connected
    /\ connected' = FALSE
    /\ future' = FlushFutures(future, pending, "closed")
    /\ pending' = EmptyPending
    /\ pending_aliases' = EmptyAliases
    /\ delivered' = NoDelivery
    /\ UNCHANGED notifications

(* _reader_loop, lines 192-204: the remote end closes the stream cleanly, the
   async-for ends without an exception and only the finally branch runs. *)
ReaderEof ==
    /\ connected
    /\ connected' = FALSE
    /\ delivered' = NoDelivery
    /\ UNCHANGED <<pending, pending_aliases, future, notifications>>

(* ----------------------- SpecWs: free-standing callers ----------------- *)
IdleCall == [pc |-> "idle", key |-> NoKey, err |-> "-"]

AltChoices == {[k \in S |-> ResNotifyHostSlaveMode] :
                  S \in {T \in SUBSET WsAliasKeys : Cardinality(T) <= MaxAlts}}

InitWsVars ==
    /\ connected = FALSE
    /\ pending = EmptyPending
    /\ pending_aliases = EmptyAliases
    /\ future = [c \in Owners |-> NoFuture]
    /\ notifications = {}
    /\ delivered = NoDelivery
    /\ lastOp = Op("init")

Devices == {"telescope", "camera", "focuser", "filterwheel"}
NoRefs == [d \in Devices |-> 0]
IdleTask == [op |-> "none", pc |-> "idle", dev |-> "-", was_connected |-> FALSE,
             boot_i |-> 0, key |-> NoKey, lock_try |-> "-", refs0 |-> NoRefs,
             refs_reset |-> FALSE]

(* ---- the state of the camera (Part 3) ---- *)
None == "None"
NoTask == 0
CaptureIds == 1 .. MaxCamOps

\* CameraState, session.py lines 75-104 (the fields the capture pipeline uses)
InitCameraState ==
    [connected |-> FALSE, capture_mode |-> "photo", start_time |-> 0, duration |-> 0,
     image |-> None,
     last_error |-> None, capture_task |-> NoTask,
     pending_ftp_baseline |-> 0, pending_album_baseline |-> 0,
     last_ftp_entry |-> 0, last_album_mod_time |-> 0]

NoCapture == [status |-> "none", cancel |-> FALSE, unwinding |-> FALSE, pc |-> "-",
              baseline |-> 0, ftp |-> "-"]

Unqueried == "unqueried"
IdleCamCall == [op |-> "none", pc |-> "idle", light |-> FALSE, cwd |-> FALSE,
                dark |-> "-", q_ftp |-> Unqueried, wait |-> NoTask, unlocks |-> 0,
                held |-> FALSE, up |-> FALSE, ok |-> FALSE]

NoCaches == [params_config |-> None, exposure_resolver |-> None,
             filter_options |-> None]

InitCamVars ==
    /\ camera_state = InitCameraState
    /\ capture = [k \in CaptureIds |-> NoCapture]
    /\ ccall = [t \in Tasks |-> IdleCamCall]
    /\ caches = NoCaches
    /\ temperature_task = "none"
    /\ router_connected = FALSE
    /\ device = [ftp |-> 0, album |-> 0]

\* asyncio.Task.done()
Done(cap, k) == k = NoTask \/ cap[k].status = "done"

\* a retrieval task that runs and has not been cancelled
Live(cap, k) == k # NoTask /\ cap[k].status = "running" /\ ~cap[k].cancel
                  /\ ~cap[k].unwinding

\* the first unused task id (asyncio.create_task makes a new task)
FreshId(cap) == CHOOSE k \in CaptureIds :
                   cap[k].status = "none" /\ \A j \in CaptureIds : j < k => cap[j].status # "none"

\* task.cancel(), guarded by "task and not task.done()" (lines 987-988,
\* 1025-1026, 1129-1130, 736-737)
CancelTask(cap, k) ==
    IF k # NoTask /\ cap[k].status = "running"
    THEN [cap EXCEPT ![k].cancel = TRUE] ELSE cap

\* an endpoint that checks nothing
EndpointRejectsNothing(rc, duration) == FALSE

\* devices/camera.py start_exposure, lines 493-497: _ensure_connected() and
\* the check of the duration
EndpointRejects(rc, duration) == ~rc \/ duration <= 0

\* time.time() of line 1013: some time after the epoch
Now == 1

\* camera_start_exposure, lines 1012-1024: the state is reset for the new
\* exposure
StartReset(cs, duration, now) ==
    [cs EXCEPT !.duration = duration, !.start_time = now, !.last_error = None,
               !.image = None, !.capture_mode = "astro"]

\* _ensure_dark_library, lines 1928-1976, for the answer of the dark check:
\* ready (True / False) or the DwarfCommandError, and the tag it leaves
DarkCodes == {"OK", "CODE_ASTRO_DARK_NOT_FOUND", "CODE_OTHER", "no_response"}

EnsureDarkLibrary(code, cwd, last_error) ==
    CASE code = "no_response" -> [raise |-> FALSE, ready |-> cwd, last_error |-> last_error]
      [] code = "OK" -> [raise |-> FALSE, ready |-> TRUE,
                         last_error |-> IF last_error = "dark_missing" THEN None
                                        ELSE last_error]
      [] code = "CODE_ASTRO_DARK_NOT_FOUND" ->
            IF cwd THEN [raise |-> FALSE, ready |-> FALSE, last_error |-> "dark_missing"]
            ELSE [raise |-> TRUE, ready |-> FALSE, last_error |-> last_error]
      [] OTHER ->
            IF cwd THEN [raise |-> FALSE, ready |-> FALSE, last_error |-> "dark_code"]
            ELSE [raise |-> TRUE, ready |-> FALSE, last_error |-> last_error]

\* camera_start_exposure, lines 1053-1070: the tag after the dark check
AfterDarkCheck(res) ==
    IF res.raise THEN "dark_check_error"
    ELSE IF ~res.ready THEN "dark_missing" ELSE res.last_error

\* _start_astro_capture, lines 1838-1877, and camera_start_exposure, lines
\* 1086-1105: what the answer to the start-capture command leads to
StartCodes == {"OK", "CODE_ASTRO_NEED_GOTO", "CODE_ASTRO_FUNCTION_BUSY", "CODE_OTHER",
               "timeout"}

\* a start that takes needs-goto as a failure
StartAnswerGotoFails(code) ==
    CASE code = "OK" -> [started |-> TRUE, last_error |-> None, raises |-> {}]
      [] code = "CODE_ASTRO_FUNCTION_BUSY" ->
            [started |-> FALSE, last_error |-> "astro_busy",
             raises |-> {<<"DwarfCommandError", code>>}]
      [] code \in {"CODE_OTHER", "CODE_ASTRO_NEED_GOTO"} ->
            [started |-> FALSE, last_error |-> "command_error",
             raises |-> {<<"DwarfCommandError", code>>}]
      [] OTHER -> [started |-> FALSE, last_error |-> "-", raises |-> {<<"TimeoutError", code>>}]

StartAnswer(code) ==
    CASE code \in {"OK", "CODE_ASTRO_NEED_GOTO"} ->
            [started |-> TRUE, last_error |-> None, raises |-> {}]
      [] code = "CODE_ASTRO_FUNCTION_BUSY" ->
            [started |-> FALSE, last_error |-> "astro_busy",
             raises |-> {<<"DwarfCommandError", code>>}]
      [] code = "CODE_OTHER" ->
            [started |-> FALSE, last_error |-> "command_error",
             raises |-> {<<"DwarfCommandError", code>>}]
      [] OTHER -> [started |-> FALSE, last_error |-> "-", raises |-> {<<"TimeoutError", code>>}]

\* _refresh_ftp_baseline, lines 2101-2116: latest is the entry the device
\* listed (0: none), ok is false when the listing raised
RefreshFtpBaseline(cs, latest, ok) ==
    LET last == IF ok /\ latest # 0 THEN latest ELSE cs.last_ftp_entry
    IN [cs EXCEPT !.last_ftp_entry = last, !.pending_ftp_baseline = last]

\* _refresh_capture_baseline, lines 2095-2099, for capture_kind "astro": the
\* album baseline is the cached modification time
RefreshAlbumBaseline(cs) ==
    [cs EXCEPT !.pending_album_baseline = cs.last_album_mod_time]

\* ftp_client._is_new_entry, lines 251-256
IsNewEntry(entry, baseline) == baseline = 0 \/ entry > baseline \/ entry # baseline

\* _attempt_album_capture, lines 2258-2264: an album entry is its
\* modification time, which also names its file
IsNewAlbum(mod, baseline, last_known) ==
    \/ baseline = 0 \/ mod > baseline
    \/ mod # last_known

\* _attempt_ftp_capture, lines 2199-2244
FtpOutcomes == {"timeout", "decode_failed", "stored"}

AttemptFtpCapture(cs, entry, outcome) ==
    CASE outcome = "timeout" ->
            [cs EXCEPT !.start_time = 0, !.last_error = "ftp_timeout",
                       !.pending_ftp_baseline = cs.last_ftp_entry]
      [] outcome = "decode_failed" ->
            [cs EXCEPT !.start_time = 0, !.last_error = "ftp_decode_failed",
                       !.pending_ftp_baseline = entry]
      [] OTHER ->
            [cs EXCEPT !.image = "frame", !.start_time = 0, !.last_error = None,
                       !.last_ftp_entry = entry, !.pending_ftp_baseline = entry]

\* _attempt_album_capture, lines 2246-2327
AlbumOutcomes == {"timeout", "download_failed", "decode_failed", "stored"}

\* an album attempt that forgets to tag its timeout
AlbumTagNone(outcome) == None

AlbumTag(outcome) ==
    CASE outcome = "timeout" -> "album_timeout"
      [] outcome = "download_failed" -> "album_download_failed"
      [] outcome = "decode_failed" -> "decode_failed"
      [] OTHER -> None

\* an album attempt that stores its frame without clearing the error tag
AttemptAlbumCaptureKeepsTag(cs, entry, outcome) ==
    LET seen == IF outcome = "timeout" THEN cs.last_album_mod_time ELSE entry
    IN [cs EXCEPT !.last_album_mod_time = seen,
                  !.pending_album_baseline = seen,
                  !.start_time = 0,
                  !.last_error = IF outcome = "stored" THEN @ ELSE AlbumTag(outcome),
                  !.image = IF outcome = "stored" THEN "frame" ELSE @]

AttemptAlbumCapture(cs, entry, outcome) ==
    LET seen == IF outcome = "timeout" THEN cs.last_album_mod_time ELSE entry
    IN [cs EXCEPT !.last_album_mod_time = seen,
                  !.pending_album_baseline = seen,
                  !.start_time = 0,
                  !.last_error = AlbumTag(outcome),
                  !.image = IF outcome = "stored" THEN "frame" ELSE @]

(* ---- the focuser, session.py lines 2440-2616 ---- *)
\* FocuserState and the call in progress: the clamped target and the requested
\* one, the sign and count of the steps, the loop index, received_update, the
\* _focus_update_event, the commands the call has issued with their direction
\* field, how the continuous wait ended, and whether a position notification
\* was handled since the call began
IdleFocuser ==
    [position |-> 0, connected |-> FALSE, is_moving |-> FALSE, moves |-> 0,
     notes |-> 0, pc |-> "idle", desired |-> 0,
     target |-> 0, direction |-> 0, steps |-> 0, i |-> 0,
     received_update |-> FALSE, event |-> FALSE, cmds |-> <<>>,
     waitEnd |-> "-", notified |-> FALSE, result |-> "-"]

(* ---- the telescope, session.py lines 762-969 ---- *)
Axes == {0, 1}

\* lines 167-171: no axis is driven, the joystick is not active, no goto is
\* recorded; ops counts the calls of the run
IdleTelescope ==
    [rates |-> [a \in Axes |-> 0], joystick_active |-> FALSE,
     last_goto |-> FALSE, ops |-> 0]

\* a call on the telescope: what is left of it to run, the command it awaits,
\* and what it has done so far
NoCommand == [cmd |-> "none", suppress |-> FALSE, attempt |-> 0]
IdleTelCall ==
    [op |-> "none", pc |-> "idle", todo |-> <<>>, inflight |-> NoCommand,
     log |-> <<>>, result |-> "-"]

(* ---- BLE provisioning, ble_provisioner.py and ble_packets.py ---- *)
\* a decoded message: the fields provisioning reads of ResGetconfig, ResSta and
\* ResReceiveDataError; a message without payload has every field at its default
DefaultMessage == [code |-> 0, state |-> 0, wifi_mode |-> 0, ssid |-> "", ip |-> ""]
NoPacket == [cmd |-> -1, payload |-> <<>>]
NoResult == [success |-> FALSE, message |-> "-", sta_ip |-> "-"]

\* the provisioning run: where it is, the response queue, the commands written
\* to the characteristic, the first config response, sta_ip, the result, and
\* what the notification handler did with the last frame
IdleBle ==
    [pc |-> "idle", queue |-> <<>>, writes |-> <<>>, config |-> DefaultMessage,
     has_config |-> FALSE, sta_ip |-> "", result |-> NoResult, notes |-> 0, time |-> 0,
     last |-> [frame |-> <<>>, accepted |-> FALSE, error |-> "-", packet |-> NoPacket]]

\* no wait_for_new_photo call; an optional entry is the empty sequence or
\* the sequence of one entry
IdleFtp ==
    [pc |-> "idle", baseline |-> <<>>, latest |-> <<>>, listed |-> <<>>, seen |-> {},
     polls |-> 0, uploads |-> 0, result |-> <<>>]

\* no resolver has been made and choose_index has not been called
NoResolver ==
    [config |-> <<>>, options |-> <<>>, resolver |-> FALSE, calls |-> 0,
     duration |-> 0, result |-> <<>>, prev_duration |-> 0, prev_result |-> <<>>]

\* camera_state after construction, lines 82-83 and 102-103: no gain is
\* requested or applied and no filter is selected
FreshSettings ==
    [requested_gain |-> <<>>, applied_gain_index |-> <<>>,
     filter_index |-> <<>>, filter_name |-> ""]

\* no call has used the settings
NoSettings ==
    [now |-> FreshSettings, before |-> FreshSettings, sent |-> <<>>, prev_sent |-> <<>>,
     op |-> "-",
     starts |-> 0, selects |-> 0, gain_ok |-> <<>>, filter_ok |-> <<>>]

InitDevVars ==
    /\ focuser = IdleFocuser
    /\ telescope = IdleTelescope
    /\ tcall = [t \in Tasks |-> IdleTelCall]
    /\ ble = IdleBle
    /\ ftp = IdleFtp
    /\ exposure = NoResolver
    /\ settings = NoSettings
    /\ unreferenced = FALSE
    /\ overlapped = FALSE

InitSessVars ==
    /\ task = [t \in Tasks |-> IdleTask]
    /\ refs = NoRefs
    /\ master_lock_acquired = FALSE
    /\ ws_bootstrapped = FALSE
    /\ time_synced = FALSE
    /\ locks = [l \in {"_lock", "_master_lock_lock", "_ws_command_lock"} |-> 0]
    /\ connBoot = 0
    /\ faults = 0
    /\ opsStarted = 0
    /\ InitCamVars

InitWs ==
    /\ InitWsVars
    /\ InitSessVars
    /\ InitDevVars
    /\ call = [c \in Callers |-> IdleCall]

WsSendRequest(c, key, alts, outcome) ==
    /\ call[c].pc = "idle"
    /\ SendRequest(c, key, ComResponse, alts, outcome)
    /\ call' = [call EXCEPT ![c] =
           IF outcome = "sent" THEN [pc |-> "waiting", key |-> key, err |-> "-"]
           ELSE IdleCall]
    /\ lastOp' = [Op("send_request") EXCEPT !.caller = c, !.key = key,
                      !.outcome = outcome, !.sent = (outcome = "sent")]
    /\ UNCHANGED sessVars

\* the awaiting caller resumes with the result or the exception of its future
\* and send_request returns or raises
WsResume(c) ==
    /\ call[c].pc = "waiting"
    /\ future[c].state \in {"result", "exception", "cancelled"}
    /\ call' = [call EXCEPT ![c] = IdleCall]
    /\ future' = [future EXCEPT ![c] = NoFuture]
    /\ lastOp' = [Op("resume") EXCEPT !.caller = c, !.key = call[c].key,
                      !.outcome = IF future[c].state = "result" THEN future[c].cls
                                  ELSE future[c].err]
    /\ delivered' = NoDelivery
    /\ UNCHANGED <<connected, pending, pending_aliases, notifications, sessVars>>

WsTimeout(c) ==
    /\ call[c].pc = "waiting"
    /\ RequestTimeout(c, call[c].key)
    /\ lastOp' = [Op("timeout") EXCEPT !.caller = c, !.key = call[c].key]
    /\ UNCHANGED <<call, sessVars>>

WsDispatch(key, type, data, order, raising) ==
    /\ DispatchPacket(key, type, data, order, raising)
    /\ lastOp' = [Op("dispatch") EXCEPT
                     !.key = key, !.type = type, !.raising = raising,
                     !.caller = Resolve(pending, pending_aliases, key).popped.fut]
    /\ UNCHANGED <<call, sessVars>>

WsClose ==
    /\ Close
    /\ lastOp' = Op("close")
    /\ UNCHANGED <<call, sessVars>>

WsReaderError ==
    /\ ReaderError
    /\ lastOp' = Op("reader_error")
    /\ UNCHANGED <<call, sessVars>>

WsReaderEof ==
    /\ ReaderEof
    /\ lastOp' = Op("reader_eof")
    /\ UNCHANGED <<call, sessVars>>

\* register_notification_handler / unregister_notification_handler
RegisterNotificationHandler(h) ==
    /\ h \notin notifications
    /\ notifications' = notifications \cup {h}
    /\ lastOp' = Op("register")
    /\ delivered' = NoDelivery
    /\ UNCHANGED <<connected, pending, pending_aliases, future, call, sessVars>>

UnregisterNotificationHandler(h) ==
    /\ h \in notifications
    /\ notifications' = notifications \ {h}
    /\ lastOp' = Op("unregister")
    /\ delivered' = NoDelivery
    /\ UNCHANGED <<connected, pending, pending_aliases, future, call, sessVars>>

WsPacketData == {[f1 |-> 0, f2 |-> TRUE]}

NextWs ==
    \/ \E c \in Callers, key \in WsKeys, alts \in AltChoices,
          outcome \in {"connect_failed", "already_pending", "send_failed", "sent"} :
          WsSendRequest(c, key, alts, outcome)
    \/ \E c \in Callers : WsResume(c)
    \/ \E c \in Callers : WsTimeout(c)
    \/ \E key \in WsPacketKeys, type \in {TYPE_REQUEST_RESPONSE, TYPE_NOTIFICATION},
          data \in WsPacketData :
          WsDispatch(key, type, data, <<>>, {})
    \/ WsClose
    \/ WsReaderError
    \/ WsReaderEof

SpecWs == InitWs /\ [][NextWs]_vars

(* -------- SpecNotify: one caller, handlers come and go, fan-out -------- *)
NotifyCaller == 1

NextNotify ==
    \/ \E key \in WsKeys, alts \in AltChoices, outcome \in {"connect_failed", "sent"} :
          WsSendRequest(NotifyCaller, key, alts, outcome)
    \/ WsResume(NotifyCaller)
    \/ \E key \in WsPacketKeys,
          type \in {TYPE_REQUEST, TYPE_REQUEST_RESPONSE, TYPE_NOTIFICATION,
                    TYPE_NOTIFICATION_RESPONSE},
          data \in WsPacketData, order \in Orders(notifications),
          raising \in SUBSET notifications :
          WsDispatch(key, type, data, order, raising)
    \/ WsReaderEof
    \/ \E h \in Handlers : RegisterNotificationHandler(h)
    \/ \E h \in Handlers : UnregisterNotificationHandler(h)

SpecNotify == InitWs /\ [][NextNotify]_vars

(* ===================== Claims on the command channel =================== *)

\* the request (if any) whose future the packet of this step completed
ResolvedBy(K, key, rec) ==
    /\ pending'[K] = NoPending
    /\ future'[rec.fut].state = "result"
    /\ future'[rec.fut].cls = IF key = K THEN rec.response_cls
                              ELSE rec.alternate_responses[key]
    /\ \A k2 \in AllKeys \ {K} : pending'[k2] = pending[k2]
    /\ \A c \in Owners \ {rec.fut} : future'[c] = future[c]

(* C1 as stated: a packet whose key is the key of a pending request, or one
   of the alternate keys that request registered (no request pending under
   the alternate key itself), resolves exactly that request, with the
   primary or the alternate response type. *)
C1_AnyRegisteredAliasResolves ==
    [][lastOp'.op = "dispatch" =>
         \A K \in AllKeys :
            (/\ pending[K] # NoPending
             /\ \/ lastOp'.key = K
                \/ /\ lastOp'.key \in DOMAIN pending[K].alternate_responses
                   /\ pending[lastOp'.key] = NoPending)
            => ResolvedBy(K, lastOp'.key, pending[K])]_vars

(* C1 amended: the alternate key resolves the request the alias table maps
   it to, i.e. the request that registered that alternate key last. *)
C1_KeyOrCurrentAliasResolves ==
    [][lastOp'.op = "dispatch" =>
         \A K \in AllKeys :
            (/\ pending[K] # NoPending
             /\ \/ lastOp'.key = K
                \/ /\ lastOp'.key \in DOMAIN pending[K].alternate_responses
                   /\ pending[lastOp'.key] = NoPending
                   /\ pending_aliases[lastOp'.key] = K)
            => ResolvedBy(K, lastOp'.key, pending[K])]_vars

\* a packet with an alternate key has resolved a request while another
\* request stays pending
C1_Witness ==
    /\ lastOp.op = "dispatch"
    /\ lastOp.caller \in Callers
    /\ future[lastOp.caller].state = "result"
    /\ future[lastOp.caller].cls = ResNotifyHostSlaveMode
    /\ PendingKeys(pending) # {}

(* C2: while a request with some key is pending, a second send_request with
   that key is rejected, sends no frame, registers no alias and leaves the
   first request pending; no two callers ever wait on the same key. *)
C2_SecondRequestRejected ==
    /\ [](\A c1, c2 \in Callers :
            (c1 # c2 /\ call[c1].pc = "waiting" /\ call[c2].pc = "waiting"
             /\ future[c1].state = "pending" /\ future[c2].state = "pending")
            => call[c1].key # call[c2].key)
    /\ [][(/\ lastOp'.op = "send_request"
           /\ lastOp'.outcome # "connect_failed"
           /\ pending[lastOp'.key] # NoPending)
          => /\ lastOp'.outcome = "already_pending"
             /\ ~lastOp'.sent
             /\ pending' = pending
             /\ pending_aliases' = pending_aliases
             /\ future' = future
             /\ call'[lastOp'.caller].pc = "idle"]_vars

\* a second request was rejected and the first one still waits
C2_Witness ==
    /\ lastOp.op = "send_request"
    /\ lastOp.outcome = "already_pending"
    /\ pending[lastOp.key] # NoPending
    /\ pending[lastOp.key].fut # lastOp.caller
    /\ future[pending[lastOp.key].fut].state = "pending"

(* C3 as stated: whenever the channel becomes disconnected, every pending
   request is failed with a connection-closed error and both tables are
   empty afterwards. *)
C3_DisconnectFailsAllPending ==
    [][(connected /\ ~connected') =>
         /\ \A k \in AllKeys : pending[k] # NoPending =>
               /\ future'[pending[k].fut].state = "exception"
               /\ future'[pending[k].fut].err = "closed"
         /\ pending' = EmptyPending
         /\ pending_aliases' = EmptyAliases]_vars

(* C4: a send_request whose timeout expires ends with a timeout error, its
   record and every alias pointing to it are gone, no later packet can
   complete it, and its key is accepted again. *)
C4_TimeoutCleansUp ==
    /\ [][lastOp'.op = "timeout" =>
            LET c == lastOp'.caller
                K == lastOp'.key
            IN /\ future'[c].state = "cancelled"
               /\ future'[c].err = "timeout"
               /\ pending'[K] = NoPending
               /\ \A k \in AllKeys : pending_aliases'[k] # K
               /\ \A k \in AllKeys : pending'[k].fut # c
               /\ \A k \in AllKeys :
                     SetResult(future', Resolve(pending', pending_aliases', k),
                               NoData)[c] = future'[c]
               /\ ~KeyRefused(pending', K)]_vars
    /\ [][(lastOp'.op = "resume" /\ future[lastOp'.caller].state = "cancelled")
          => lastOp'.outcome = "timeout"]_vars

\* one caller's request timed out and another caller's request with the same
\* key has been accepted since
C4_Witness ==
    \E c1, c2 \in Callers :
       /\ c1 # c2
       /\ future[c1].state = "cancelled"
       /\ call[c2].pc = "waiting"
       /\ call[c2].key = call[c1].key
       /\ pending[call[c2].key].fut = c2
       /\ lastOp.op = "send_request"

(* C5: a dispatched notification is delivered exactly once to every
   registered handler, whether or not it resolved a request and whether or
   not a handler raises; any other packet is delivered to no handler. *)
C5_NotificationFanOut ==
    [][lastOp'.op = "dispatch" =>
         \A h \in Handlers :
            delivered'[h] = IF lastOp'.type = TYPE_NOTIFICATION /\ h \in notifications
                            THEN 1 ELSE 0]_vars

\* a notification that resolved a request reached both handlers although
\* one of them raised
C5_Witness ==
    /\ lastOp.op = "dispatch"
    /\ lastOp.type = TYPE_NOTIFICATION
    /\ lastOp.caller \in Callers
    /\ lastOp.raising # {}
    /\ notifications = Handlers
    /\ \A h \in Handlers : delivered[h] = 1

(* C35 as stated: the alias table is consistent with the pending table.
   Every alias entry maps to a key that is pending, and every alternate key
   registered by a request that is still pending is present in the alias
   table, also when two pending requests registered the same alternate key
   and one of them resolves or times out first. *)
NoDanglingAlias ==
    \A k \in AllKeys :
        pending_aliases[k] # NoKey => pending[pending_aliases[k]] # NoPending

AliasesOfPendingPresent ==
    \A K \in AllKeys :
        pending[K] # NoPending =>
            \A k \in DOMAIN pending[K].alternate_responses :
                pending_aliases[k] # NoKey

C35_AliasTableConsistent ==
    NoDanglingAlias /\ AliasesOfPendingPresent

\* the alias table maps an alternate key only to a request that registered it
AliasOfItsRequest ==
    \A k \in AllKeys :
        pending_aliases[k] # NoKey =>
            /\ pending[pending_aliases[k]] # NoPending
            /\ k \in DOMAIN pending[pending_aliases[k]].alternate_responses

\* an alias entry goes away, or changes, only in a step that takes the key it
\* maps to out of the pending table, or in a send_request for another key
\* that registers the alternate key again: the entry then maps to the new
\* key, or is gone when the send failed and the new request was popped
AliasKeptWhileItsKeyPending ==
    \A k \in AllKeys :
        (pending_aliases[k] # NoKey /\ pending_aliases'[k] # pending_aliases[k])
        => \/ pending'[pending_aliases[k]] = NoPending
           \/ /\ lastOp'.op = "send_request"
              /\ pending[lastOp'.key] = NoPending
              /\ \/ /\ lastOp'.outcome = "sent"
                    /\ pending_aliases'[k] = lastOp'.key
                    /\ k \in DOMAIN pending'[lastOp'.key].alternate_responses
                 \/ /\ lastOp'.outcome = "send_failed"
                    /\ pending_aliases'[k] = NoKey

(* C35 amended: every alias entry maps to a pending request that registered
   that alternate key, and the entry stays as long as that request is
   pending, unless a later send_request for another key registers the same
   alternate key (the entry then follows the later request, and is dropped
   with it, also when its send fails). *)
C35_AliasOfLastRegistrant ==
    /\ []AliasOfItsRequest
    /\ [][AliasKeptWhileItsKeyPending]_vars

\* two requests that registered the same alternate key were pending, the one
\* that registered it first was resolved or timed out, and the entry of the
\* other one is still there
C35_Witness ==
    /\ lastOp.op \in {"dispatch", "timeout"}
    /\ \E K \in AllKeys, k \in AllKeys :
          /\ pending[K] # NoPending
          /\ k \in DOMAIN pending[K].alternate_responses
          /\ pending_aliases[k] = K
          /\ \E c \in Callers :
                /\ call[c].pc = "waiting"
                /\ call[c].key # K
                /\ future[c].state \in {"result", "cancelled"}

\* the request that registered the shared alternate key last went first: the
\* other request is pending and its alternate key is gone
C35_AliasLostWitness ==
    /\ lastOp.op \in {"dispatch", "timeout"}
    /\ \E K \in AllKeys :
          /\ pending[K] # NoPending
          /\ \E k \in DOMAIN pending[K].alternate_responses :
                pending_aliases[k] = NoKey

(* ======================= Part 2: DwarfSession ========================== *)

\* expected_responses of the bootstrap, lock and unlock requests
HostSlaveAlternates == [k \in AliasKeys |-> ResNotifyHostSlaveMode]
NoAlternates == [k \in {} |-> NoCls]

\* _bootstrap_ws, lines 203-219: the fixed command sequence
BootstrapCommands == <<KEY_WORKING_STATE, KEY_OPEN_TELE, KEY_OPEN_WIDE>>

\* positions at which a task is suspended on the future of a request
AwaitPcs == {"boot_await", "lock_await", "sync_await", "cmd_await", "unlock_await"}

\* positions a task runs through without yielding to the event loop: code
\* that follows an await which did not suspend (a free asyncio.Lock, a
\* coroutine that returned at once)
TransientPcs == {"acq_enter", "rel_enter", "eml_enter", "sd_enter", "boot_enter",
                 "sync_enter", "cmd_enter", "lock_send", "unlock_send", "ews_return"}

FutureDone(t) == future[t].state \in {"result", "exception", "cancelled"}

WaitPcs == {"acq_wait", "rel_wait", "eml_wait", "sd_wait", "boot_wait", "sync_wait",
            "cmd_wait"}

WaitLock(pc) == CASE pc \in {"acq_wait", "rel_wait"} -> "_lock"
                  [] pc \in {"eml_wait", "sd_wait"} -> "_master_lock_lock"
                  [] OTHER -> "_ws_command_lock"

\* the event loop picks another task or callback only when the running task
\* has suspended
Quiet == \A t \in Tasks : task[t].pc \notin TransientPcs

\* a task whose awaited future is done, or whose awaited lock is free, is in
\* the ready queue of the event loop
Ready(t) ==
    \/ task[t].pc \in AwaitPcs /\ FutureDone(t)
    \/ task[t].pc \in WaitPcs /\ locks[WaitLock(task[t].pc)] = 0

\* the loop polls for new events (frames, timers, new calls) only when no
\* task is ready
Settled == Quiet /\ \A t \in Tasks : ~Ready(t)

\* async with <lock>: entered at once when the lock is free (enterPc), or
\* after having waited for it (waitPc)
Runnable(t, enterPc, waitPc, lock) ==
    /\ locks[lock] = 0
    /\ \/ task[t].pc = enterPc
       \/ task[t].pc = waitPc /\ Quiet

\* the bootstrap, clock and capability commands taking the session lock
\* instead of the command lock
LockOfSessionLockForCommands(pc) == CASE pc \in {"eml_enter", "sd_enter"} -> "_master_lock_lock"
                [] OTHER -> "_lock"

LockOf(pc) == CASE pc \in {"acq_enter", "rel_enter"} -> "_lock"
                [] pc \in {"eml_enter", "sd_enter"} -> "_master_lock_lock"
                [] OTHER -> "_ws_command_lock"

WaitPc(pc) == CASE pc = "acq_enter" -> "acq_wait"
                [] pc = "rel_enter" -> "rel_wait"
                [] pc = "eml_enter" -> "eml_wait"
                [] pc = "sd_enter" -> "sd_wait"
                [] pc = "boot_enter" -> "boot_wait"
                [] pc = "sync_enter" -> "sync_wait"
                [] OTHER -> "cmd_wait"

\* bootstrap commands completed in order on the connection that is up now
\* (0 after every new connection)
ConnBootReset == IF ~connected /\ connected' THEN 0 ELSE connBoot

\* every answer that is a result is taken as a grant
LockGrantedByAnyResult(f) == f.state = "result"

\* a notification with lock = true is taken as a grant whatever its mode
LockGrantedAnyMode(f) ==
    /\ f.state = "result"
    /\ \/ f.cls = ComResponse /\ f.data.f1 = OK
       \/ f.cls = ResNotifyHostSlaveMode /\ f.data.f2

\* _ensure_master_lock, lines 541-576: the answers that set the flag
LockGranted(f) ==
    /\ f.state = "result"
    /\ \/ f.cls = ComResponse /\ f.data.f1 = OK
       \/ f.cls = ResNotifyHostSlaveMode /\ f.data.f1 = 0 /\ f.data.f2

\* how the lock request ended, lines 541-590
LockAnswer(f) ==
    IF LockGranted(f) THEN "granted"
    ELSE IF f.state = "result"
         THEN (IF f.cls = ComResponse THEN "code" ELSE "notify")
         ELSE f.err

\* _ensure_master_lock, lines 511-512: the fast path when the flag is set
EmlEntry(flag) == IF flag THEN "ews_return" ELSE "eml_enter"

\* acquire without the rollback of line 724
RollbackNone(r, d) == r

\* acquire, line 724: the rollback of the increment
Rollback(r, d) == [r EXCEPT ![d] = IF r[d] - 1 > 0 THEN r[d] - 1 ELSE 0]

\* a release that closes as soon as the released capability is at zero
AllReleasedOnlyThis(r, d) == r[d] = 0

\* release, line 730: all(count == 0 for count in self._refs.values())
AllReleased(r, d) == \A x \in Devices : r[x] = 0

\* _bootstrap_ws, lines 260-267: a failed command ends the bootstrap; the
\* caller, _ensure_master_lock, goes on to the lock request (lines 518-539)
BootAfterFailure(i) == "lock_send"

\* the outcomes of a send that are failures of the channel
FaultOutcomes == {"connect_failed", "send_failed"}

\* an answer that reports a failure or denies the lock
Negative(type, data) ==
    /\ data # NoData
    /\ IF type = TYPE_NOTIFICATION THEN ~(data.f1 = 0 /\ data.f2) ELSE data.f1 # OK

\* failures of the channel and of the device are counted against MaxFaults
Fault(isFault) ==
    /\ isFault => faults < MaxFaults
    /\ faults' = IF isFault THEN faults + 1 ELSE faults

Finish(t) == [task EXCEPT ![t] = IdleTask]

\* the steps of the session are told apart by the positions of the tasks
SessOp(name, t) == Op("session")

QuietWs ==
    /\ delivered' = NoDelivery
    /\ UNCHANGED <<connected, pending, pending_aliases, future, notifications>>

ConsumeFuture(t) ==
    /\ future' = [future EXCEPT ![t] = NoFuture]
    /\ delivered' = NoDelivery
    /\ UNCHANGED <<connected, pending, pending_aliases, notifications>>

\* a caller starts an operation on the session; callers are interchangeable,
\* so the next operation is run by the first task that is free
Startable(t) ==
    /\ Settled
    /\ task[t].pc = "idle"
    /\ \A u \in Tasks : u < t => task[u].pc # "idle"
    /\ opsStarted < MaxOps

\* async with <lock> finds the lock taken: the task queues up for it
Block(t) ==
    /\ task[t].pc \in {"acq_enter", "rel_enter", "eml_enter", "sd_enter",
                       "boot_enter", "sync_enter", "cmd_enter"}
    /\ locks[LockOf(task[t].pc)] # 0
    /\ task' = [task EXCEPT ![t].pc = WaitPc(@)]
    /\ lastOp' = SessOp("block", t)
    /\ QuietWs
    /\ UNCHANGED <<call, camVars, devVars, refs, master_lock_acquired, ws_bootstrapped, time_synced,
                   locks, connBoot, faults, opsStarted>>

(* ---- acquire, lines 718-725 ---- *)
AcquireEnter(t, d) ==
    /\ Startable(t)
    /\ opsStarted' = opsStarted + 1
    /\ task' = [task EXCEPT ![t] = [IdleTask EXCEPT !.op = "acquire", !.dev = d,
                                                   !.pc = "acq_enter"]]
    /\ unreferenced' = FALSE
    /\ UNCHANGED overlapped
    /\ lastOp' = SessOp("acquire_enter", t)
    /\ QuietWs
    /\ UNCHANGED <<call, camVars, deviceVars, refs, master_lock_acquired, ws_bootstrapped,
                   time_synced, locks, connBoot, faults>>

\* the session lock is taken, the count incremented and _ensure_ws entered
\* (lines 183-188: was_connected is read, connect() returns at once if the
\* channel is up)
AcquireLocked(t) ==
    /\ Runnable(t, "acq_enter", "acq_wait", "_lock")
    /\ locks' = [locks EXCEPT !["_lock"] = t]
    /\ refs' = [refs EXCEPT ![task[t].dev] = @ + 1]
    /\ task' = [task EXCEPT ![t].refs0 = refs,
                            ![t].was_connected = connected,
                            ![t].pc = IF connected THEN EmlEntry(master_lock_acquired)
                                      ELSE "connecting"]
    /\ lastOp' = SessOp("acquire_locked", t)
    /\ QuietWs
    /\ UNCHANGED <<call, camVars, devVars, master_lock_acquired, ws_bootstrapped, time_synced,
                   connBoot, faults, opsStarted>>

(* ---- a capability verb: _ensure_ws, then one checked command
        (focuser_halt, lines 2592-2606) ---- *)
VerbEnter(t) ==
    /\ Startable(t)
    /\ opsStarted' = opsStarted + 1
    /\ task' = [task EXCEPT ![t] =
                   [IdleTask EXCEPT !.op = "verb", !.was_connected = connected,
                                    !.pc = IF connected THEN EmlEntry(master_lock_acquired)
                                           ELSE "connecting"]]
    /\ lastOp' = SessOp("verb_enter", t)
    /\ QuietWs
    /\ UNCHANGED <<call, camVars, devVars, refs, master_lock_acquired, ws_bootstrapped, time_synced,
                   locks, connBoot, faults>>

(* ---- _ensure_ws, lines 186-196: connect() completes ---- *)
EnsureWsConnected(t) ==
    /\ Settled
    /\ task[t].pc = "connecting"
    /\ connected' = TRUE
    /\ connBoot' = ConnBootReset
    /\ IF ~task[t].was_connected
       THEN /\ master_lock_acquired' = FALSE
            /\ ws_bootstrapped' = FALSE
            /\ time_synced' = FALSE
            /\ task' = [task EXCEPT ![t].pc = EmlEntry(FALSE)]
       ELSE /\ UNCHANGED <<master_lock_acquired, ws_bootstrapped, time_synced>>
            /\ task' = [task EXCEPT ![t].pc = EmlEntry(master_lock_acquired)]
    /\ lastOp' = SessOp("connected", t)
    /\ delivered' = NoDelivery
    /\ UNCHANGED <<pending, pending_aliases, future, notifications, call, camVars, devVars, refs,
                   locks, faults, opsStarted>>

\* connect() raises: _ensure_ws re-raises, acquire rolls back (lines 723-725)
EnsureWsConnectFailed(t) ==
    /\ Settled
    /\ task[t].pc = "connecting"
    /\ ~connected
    /\ IF task[t].op = "acquire"
       THEN /\ refs' = Rollback(refs, task[t].dev)
            /\ locks' = [locks EXCEPT !["_lock"] = 0]
       ELSE UNCHANGED <<refs, locks>>
    /\ task' = Finish(t)
    /\ lastOp' = IF task[t].op = "acquire"
                 THEN [Op("acquire_failed") EXCEPT !.caller = t]
                 ELSE SessOp("verb_failed", t)
    /\ QuietWs
    /\ UNCHANGED <<call, camVars, devVars, master_lock_acquired, ws_bootstrapped, time_synced,
                   connBoot, opsStarted>>
    /\ Fault(TRUE)

(* ---- _ensure_master_lock, lines 513-518, and the entry of _bootstrap_ws,
        line 200 ---- *)
EnsureMasterLockLocked(t) ==
    /\ Runnable(t, "eml_enter", "eml_wait", "_master_lock_lock")
    /\ IF master_lock_acquired \/ ~connected
       THEN /\ task' = [task EXCEPT ![t].pc = "ews_return"]
            /\ UNCHANGED locks
       ELSE /\ locks' = [locks EXCEPT !["_master_lock_lock"] = t]
            /\ task' = [task EXCEPT
                          ![t].pc = IF ws_bootstrapped THEN "lock_send" ELSE "boot_enter",
                          ![t].boot_i = IF ws_bootstrapped THEN 0 ELSE 1]
    /\ lastOp' = SessOp("master_lock_enter", t)
    /\ QuietWs
    /\ UNCHANGED <<call, camVars, devVars, refs, master_lock_acquired, ws_bootstrapped, time_synced,
                   connBoot, faults, opsStarted>>

(* ---- _bootstrap_ws, lines 232-270, through _send_command / _send_request ---- *)
BootstrapSend(t, outcome) ==
    /\ Runnable(t, "boot_enter", "boot_wait", "_ws_command_lock")
    /\ SendRequest(t, BootstrapCommands[task[t].boot_i], ComResponse,
                   HostSlaveAlternates, outcome)
    /\ connBoot' = ConnBootReset
    /\ IF outcome = "sent"
       THEN /\ locks' = [locks EXCEPT !["_ws_command_lock"] = t]
            /\ task' = [task EXCEPT ![t].pc = "boot_await",
                                    ![t].key = BootstrapCommands[task[t].boot_i]]
       ELSE /\ UNCHANGED locks
            /\ task' = [task EXCEPT ![t].pc = BootAfterFailure(task[t].boot_i)]
    /\ lastOp' = SessOp("bootstrap_send", t)
    /\ UNCHANGED <<call, camVars, devVars, refs, master_lock_acquired, ws_bootstrapped, time_synced, opsStarted>>
    /\ Fault(outcome \in FaultOutcomes)

BootstrapResume(t) ==
    /\ Quiet
    /\ task[t].pc = "boot_await"
    /\ FutureDone(t)
    /\ ConsumeFuture(t)
    /\ locks' = [locks EXCEPT !["_ws_command_lock"] = 0]
    /\ IF future[t].state = "result"
       THEN /\ connBoot' = IF task[t].boot_i = connBoot + 1 THEN connBoot + 1
                           ELSE connBoot
            /\ task' = [task EXCEPT ![t].pc = "boot_sleep", ![t].key = NoKey]
       ELSE /\ UNCHANGED connBoot
            /\ task' = [task EXCEPT ![t].pc = BootAfterFailure(task[t].boot_i),
                                    ![t].key = NoKey]
    /\ lastOp' = SessOp("bootstrap_resume", t)
    /\ UNCHANGED <<call, camVars, devVars, refs, master_lock_acquired, ws_bootstrapped, time_synced,
                   faults, opsStarted>>

\* after asyncio.sleep(0.2): next command, or the flag is set (line 270)
BootstrapSleep(t) ==
    /\ Settled
    /\ task[t].pc = "boot_sleep"
    /\ IF task[t].boot_i < Len(BootstrapCommands)
       THEN /\ task' = [task EXCEPT ![t].pc = "boot_enter", ![t].boot_i = @ + 1]
            /\ UNCHANGED ws_bootstrapped
       ELSE /\ task' = [task EXCEPT ![t].pc = "lock_send"]
            /\ ws_bootstrapped' = TRUE
    /\ lastOp' = SessOp("bootstrap_sleep", t)
    /\ QuietWs
    /\ UNCHANGED <<call, camVars, devVars, refs, master_lock_acquired, time_synced, locks, connBoot,
                   faults, opsStarted>>

(* ---- _ensure_master_lock, lines 519-539: the lock request, sent with
        DwarfWsClient.send_request directly ---- *)
LockSend(t, outcome) ==
    /\ task[t].pc = "lock_send"
    /\ SendRequest(t, KEY_MASTERLOCK, ComResponse, HostSlaveAlternates, outcome)
    /\ connBoot' = ConnBootReset
    /\ IF outcome = "sent"
       THEN /\ task' = [task EXCEPT ![t].pc = "lock_await", ![t].key = KEY_MASTERLOCK]
            /\ UNCHANGED locks
       ELSE /\ task' = [task EXCEPT ![t].pc = "ews_return", ![t].lock_try = outcome]
            /\ locks' = [locks EXCEPT !["_master_lock_lock"] = 0]
    /\ lastOp' = SessOp("lock_send", t)
    /\ UNCHANGED <<call, camVars, devVars, refs, master_lock_acquired, ws_bootstrapped, time_synced, opsStarted>>
    /\ Fault(outcome \in FaultOutcomes)

\* lines 541-593: the answer is evaluated; on success the clock is synced
LockResume(t) ==
    /\ Quiet
    /\ task[t].pc = "lock_await"
    /\ FutureDone(t)
    /\ ConsumeFuture(t)
    /\ LET flag == IF LockGranted(future[t]) THEN TRUE ELSE master_lock_acquired IN
          /\ master_lock_acquired' = flag
          /\ IF flag /\ ~time_synced
             THEN /\ task' = [task EXCEPT ![t].pc = "sync_enter", ![t].key = NoKey,
                                          ![t].lock_try = LockAnswer(future[t])]
                  /\ UNCHANGED locks
             ELSE /\ task' = [task EXCEPT ![t].pc = "ews_return", ![t].key = NoKey,
                                          ![t].lock_try = LockAnswer(future[t])]
                  /\ locks' = [locks EXCEPT !["_master_lock_lock"] = 0]
    /\ lastOp' = SessOp("lock_resume", t)
    /\ UNCHANGED <<call, camVars, devVars, refs, ws_bootstrapped, time_synced, connBoot, faults, opsStarted>>

(* ---- _sync_device_clock, lines 677-716, through _send_and_check ---- *)
SyncSend(t, outcome) ==
    /\ Runnable(t, "sync_enter", "sync_wait", "_ws_command_lock")
    /\ SendRequest(t, KEY_SET_TIME, ComResponse, NoAlternates, outcome)
    /\ connBoot' = ConnBootReset
    /\ IF outcome = "sent"
       THEN /\ locks' = [locks EXCEPT !["_ws_command_lock"] = t]
            /\ task' = [task EXCEPT ![t].pc = "sync_await", ![t].key = KEY_SET_TIME]
       ELSE /\ locks' = [locks EXCEPT !["_master_lock_lock"] = 0]
            /\ task' = [task EXCEPT ![t].pc = "ews_return"]
    /\ lastOp' = SessOp("sync_send", t)
    /\ UNCHANGED <<call, camVars, devVars, refs, master_lock_acquired, ws_bootstrapped, time_synced, opsStarted>>
    /\ Fault(outcome \in FaultOutcomes)

SyncResume(t) ==
    /\ Quiet
    /\ task[t].pc = "sync_await"
    /\ FutureDone(t)
    /\ ConsumeFuture(t)
    /\ time_synced' = IF future[t].state = "result" /\ future[t].data.f1 = OK
                      THEN TRUE ELSE time_synced
    /\ locks' = [locks EXCEPT !["_ws_command_lock"] = 0, !["_master_lock_lock"] = 0]
    /\ task' = [task EXCEPT ![t].pc = "ews_return", ![t].key = NoKey]
    /\ lastOp' = SessOp("sync_resume", t)
    /\ UNCHANGED <<call, camVars, devVars, refs, master_lock_acquired, ws_bootstrapped, connBoot,
                   faults, opsStarted>>

(* ---- _ensure_ws returns (line 197); acquire leaves the session lock ---- *)
EnsureWsReturn(t) ==
    /\ task[t].pc = "ews_return"
    /\ IF task[t].op = "acquire"
       THEN /\ locks' = [locks EXCEPT !["_lock"] = 0]
            /\ task' = Finish(t)
            /\ lastOp' = [Op("acquire_done") EXCEPT
                             !.caller = t,
                             !.outcome = IF task[t].lock_try \in {"-", "granted"}
                                         THEN "ok" ELSE "lock_failed"]
       ELSE /\ UNCHANGED locks
            /\ task' = [task EXCEPT ![t].pc = "cmd_enter", ![t].lock_try = "-"]
            /\ lastOp' = SessOp("ensure_ws_done", t)
    /\ QuietWs
    /\ UNCHANGED <<call, camVars, devVars, refs, master_lock_acquired, ws_bootstrapped, time_synced,
                   connBoot, faults, opsStarted>>

(* ---- _send_and_check, lines 412-447 ---- *)
CommandSend(t, outcome) ==
    /\ Runnable(t, "cmd_enter", "cmd_wait", "_ws_command_lock")
    /\ SendRequest(t, KEY_FOCUS_STOP, ComResponse, NoAlternates, outcome)
    /\ connBoot' = ConnBootReset
    /\ IF outcome = "sent"
       THEN /\ locks' = [locks EXCEPT !["_ws_command_lock"] = t]
            /\ task' = [task EXCEPT ![t].pc = "cmd_await", ![t].key = KEY_FOCUS_STOP]
       ELSE /\ UNCHANGED locks
            /\ task' = Finish(t)
    /\ lastOp' = SessOp("command_send", t)
    /\ UNCHANGED <<call, camVars, devVars, refs, master_lock_acquired, ws_bootstrapped, time_synced, opsStarted>>
    /\ Fault(outcome \in FaultOutcomes)

CommandResume(t) ==
    /\ Quiet
    /\ task[t].pc = "cmd_await"
    /\ FutureDone(t)
    /\ ConsumeFuture(t)
    /\ locks' = [locks EXCEPT !["_ws_command_lock"] = 0]
    /\ task' = Finish(t)
    /\ lastOp' = SessOp("command_resume", t)
    /\ UNCHANGED <<call, camVars, devVars, refs, master_lock_acquired, ws_bootstrapped, time_synced,
                   connBoot, faults, opsStarted>>

(* ---- release, lines 727-733 ---- *)
ReleaseEnter(t, d) ==
    /\ Startable(t)
    /\ opsStarted' = opsStarted + 1
    /\ task' = [task EXCEPT ![t] = [IdleTask EXCEPT !.op = "release", !.dev = d,
                                                   !.pc = "rel_enter"]]
    /\ lastOp' = SessOp("release_enter", t)
    /\ QuietWs
    /\ UNCHANGED <<call, camVars, devVars, refs, master_lock_acquired, ws_bootstrapped, time_synced,
                   locks, connBoot, faults>>

ReleaseLocked(t) ==
    /\ Runnable(t, "rel_enter", "rel_wait", "_lock")
    /\ LET d == task[t].dev
           r == [refs EXCEPT ![d] = IF @ - 1 > 0 THEN @ - 1 ELSE 0]
       IN /\ refs' = r
          /\ IF AllReleased(r, d)
             THEN /\ locks' = [locks EXCEPT !["_lock"] = t]
                  /\ task' = [task EXCEPT ![t].pc = "rel_close"]
             ELSE /\ UNCHANGED locks
                  /\ task' = Finish(t)
    /\ lastOp' = SessOp("release_locked", t)
    /\ QuietWs
    /\ UNCHANGED <<call, camVars, devVars, master_lock_acquired, ws_bootstrapped, time_synced,
                   connBoot, faults, opsStarted>>

\* await self._ws_client.close()
ReleaseClose(t) ==
    /\ Settled
    /\ task[t].pc = "rel_close"
    /\ Close
    /\ task' = [task EXCEPT ![t].pc = "rel_after"]
    /\ lastOp' = SessOp("release_close", t)
    /\ UNCHANGED <<call, camVars, devVars, refs, master_lock_acquired, ws_bootstrapped, time_synced,
                   locks, connBoot, faults, opsStarted>>

\* after await self._http_client.aclose(): the flag is cleared
ReleaseAfter(t) ==
    /\ Settled
    /\ task[t].pc = "rel_after"
    /\ master_lock_acquired' = FALSE
    /\ locks' = [locks EXCEPT !["_lock"] = 0]
    /\ task' = Finish(t)
    /\ unreferenced' = \A u \in Tasks \ {t} : task[u].pc = "idle"
    /\ UNCHANGED overlapped
    /\ lastOp' = SessOp("release_done", t)
    /\ QuietWs
    /\ UNCHANGED <<call, camVars, deviceVars, refs, ws_bootstrapped, time_synced, connBoot,
                   faults, opsStarted>>

(* ---- shutdown, lines 735-758, with _release_master_lock, lines 595-675 ---- *)
ShutdownEnter(t) ==
    /\ Startable(t)
    /\ opsStarted' = opsStarted + 1
    /\ task' = [task EXCEPT ![t] = [IdleTask EXCEPT !.op = "shutdown", !.pc = "sd_enter"]]
    /\ lastOp' = SessOp("shutdown_enter", t)
    /\ QuietWs
    /\ UNCHANGED <<call, camVars, devVars, refs, master_lock_acquired, ws_bootstrapped, time_synced,
                   locks, connBoot, faults>>

ReleaseMasterLockLocked(t) ==
    /\ Runnable(t, "sd_enter", "sd_wait", "_master_lock_lock")
    /\ IF ~master_lock_acquired
       THEN /\ task' = [task EXCEPT ![t].pc = "sd_close"]
            /\ UNCHANGED locks
       ELSE /\ locks' = [locks EXCEPT !["_master_lock_lock"] = t]
            /\ task' = [task EXCEPT ![t].pc = IF connected THEN "unlock_send"
                                              ELSE "sd_connecting"]
    /\ lastOp' = SessOp("release_master_lock_enter", t)
    /\ QuietWs
    /\ UNCHANGED <<call, camVars, devVars, refs, master_lock_acquired, ws_bootstrapped, time_synced,
                   connBoot, faults, opsStarted>>

\* lines 604-614: reconnect for the unlock request
ReleaseMasterLockConnect(t, ok) ==
    /\ Settled
    /\ task[t].pc = "sd_connecting"
    /\ IF ok
       THEN /\ connected' = TRUE
            /\ connBoot' = ConnBootReset
            /\ task' = [task EXCEPT ![t].pc = "unlock_send"]
            /\ UNCHANGED <<master_lock_acquired, locks>>
       ELSE /\ ~connected
            /\ master_lock_acquired' = FALSE
            /\ locks' = [locks EXCEPT !["_master_lock_lock"] = 0]
            /\ task' = [task EXCEPT ![t].pc = "sd_close"]
            /\ UNCHANGED <<connected, connBoot>>
    /\ lastOp' = SessOp("release_master_lock_connect", t)
    /\ delivered' = NoDelivery
    /\ UNCHANGED <<pending, pending_aliases, future, notifications, call, camVars, devVars, refs,
                   ws_bootstrapped, time_synced, opsStarted>>
    /\ Fault(~ok)

UnlockSend(t, outcome) ==
    /\ task[t].pc = "unlock_send"
    /\ SendRequest(t, KEY_MASTERLOCK, ComResponse, HostSlaveAlternates, outcome)
    /\ connBoot' = ConnBootReset
    /\ IF outcome = "sent"
       THEN /\ task' = [task EXCEPT ![t].pc = "unlock_await", ![t].key = KEY_MASTERLOCK]
            /\ UNCHANGED <<locks, master_lock_acquired>>
       ELSE /\ task' = [task EXCEPT ![t].pc = "sd_close"]
            /\ master_lock_acquired' = FALSE
            /\ locks' = [locks EXCEPT !["_master_lock_lock"] = 0]
    /\ lastOp' = SessOp("unlock_send", t)
    /\ UNCHANGED <<call, camVars, devVars, refs, ws_bootstrapped, time_synced, opsStarted>>
    /\ Fault(outcome \in FaultOutcomes)

UnlockResume(t) ==
    /\ Quiet
    /\ task[t].pc = "unlock_await"
    /\ FutureDone(t)
    /\ ConsumeFuture(t)
    /\ master_lock_acquired' = FALSE
    /\ locks' = [locks EXCEPT !["_master_lock_lock"] = 0]
    /\ task' = [task EXCEPT ![t].pc = "sd_close", ![t].key = NoKey]
    /\ lastOp' = SessOp("unlock_resume", t)
    /\ UNCHANGED <<call, camVars, devVars, refs, ws_bootstrapped, time_synced, connBoot, faults, opsStarted>>

ShutdownClose(t) ==
    /\ Settled
    /\ task[t].pc = "sd_close"
    /\ Close
    /\ task' = [task EXCEPT ![t].pc = "sd_finish"]
    /\ lastOp' = SessOp("shutdown_close", t)
    /\ UNCHANGED <<call, camVars, devVars, refs, master_lock_acquired, ws_bootstrapped, time_synced,
                   locks, connBoot, faults, opsStarted>>

\* lines 755-758: the counts are zeroed, also under an acquire in progress
ShutdownFinish(t) ==
    /\ Settled
    /\ task[t].pc = "sd_finish"
    /\ master_lock_acquired' = FALSE
    /\ ws_bootstrapped' = FALSE
    /\ refs' = NoRefs
    /\ task' = [x \in Tasks |-> IF x = t THEN IdleTask
                                ELSE [task[x] EXCEPT !.refs_reset = (@ \/ task[x].op = "acquire")]]
    /\ lastOp' = SessOp("shutdown_done", t)
    /\ QuietWs
    /\ UNCHANGED <<call, camVars, devVars, time_synced, locks, connBoot, faults, opsStarted>>

(* ---- the environment of the session: the device and the transport ---- *)
ComData == {[f1 |-> 0, f2 |-> FALSE], [f1 |-> 1, f2 |-> FALSE]}
HostSlaveData == {[f1 |-> 0, f2 |-> TRUE], [f1 |-> 0, f2 |-> FALSE],
                  [f1 |-> 1, f2 |-> TRUE]}

\* payloads that make a difference to the task that gets the answer: the
\* bootstrap and the unlock request only log what they get, and a verb ends
\* whatever the code of the answer
RelevantData(t, type) ==
    IF task[t].pc \in {"boot_await", "unlock_await", "cmd_await"} THEN {NoData}
    ELSE IF type = TYPE_NOTIFICATION THEN HostSlaveData ELSE ComData

\* a frame arrives that answers a request (direct response or notification)
SessDispatch(key, type, data) ==
    /\ Settled
    /\ Resolve(pending, pending_aliases, key).popped # NoPending
    /\ \/ key \in SessionKeys /\ type = TYPE_REQUEST_RESPONSE
       \/ key \in AliasKeys /\ type = TYPE_NOTIFICATION
    /\ data \in RelevantData(Resolve(pending, pending_aliases, key).popped.fut, type)
    /\ DispatchPacket(key, type, data, <<"h1">>, {})
    /\ lastOp' = Op("session")
    /\ Fault(Negative(type, data))
    /\ UNCHANGED <<call, camVars, devVars, task, refs, master_lock_acquired, ws_bootstrapped, time_synced,
                   locks, connBoot, opsStarted>>

SessTimeout(t) ==
    /\ Settled
    /\ task[t].pc \in AwaitPcs
    /\ RequestTimeout(t, task[t].key)
    /\ lastOp' = SessOp("timeout", t)
    /\ Fault(TRUE)
    /\ UNCHANGED <<call, camVars, devVars, task, refs, master_lock_acquired, ws_bootstrapped, time_synced,
                   locks, connBoot, opsStarted>>

SessReaderError ==
    /\ Settled
    /\ Fault(TRUE)
    /\ ReaderError
    /\ lastOp' = Op("session")
    /\ UNCHANGED <<call, camVars, devVars, task, refs, master_lock_acquired, ws_bootstrapped, time_synced,
                   locks, connBoot, opsStarted>>

SessReaderEof ==
    /\ Settled
    /\ Fault(TRUE)
    /\ ReaderEof
    /\ lastOp' = Op("session")
    /\ UNCHANGED <<call, camVars, devVars, task, refs, master_lock_acquired, ws_bootstrapped, time_synced,
                   locks, connBoot, opsStarted>>

SendOutcomes == {"connect_failed", "already_pending", "send_failed", "sent"}

\* the session and its channel before the first call
InitChannelAndSession ==
    /\ connected = FALSE
    /\ pending = EmptyPending
    /\ pending_aliases = EmptyAliases
    /\ future = [c \in Owners |-> NoFuture]
    /\ notifications = {"h1"}
    /\ delivered = NoDelivery
    /\ lastOp = Op("init")
    /\ InitSessVars
    /\ call = [c \in Callers |-> IdleCall]

InitSession ==
    /\ InitChannelAndSession
    /\ InitDevVars

\* the steps every scenario of the session is made of
SessionSteps ==
    \/ \E t \in Tasks : Block(t)
    \/ \E t \in Tasks : AcquireLocked(t)
    \/ \E t \in Tasks : VerbEnter(t)
    \/ \E t \in Tasks : EnsureWsConnected(t)
    \/ \E t \in Tasks : EnsureWsConnectFailed(t)
    \/ \E t \in Tasks : EnsureMasterLockLocked(t)
    \/ \E t \in Tasks, o \in SendOutcomes : BootstrapSend(t, o)
    \/ \E t \in Tasks : BootstrapResume(t)
    \/ \E t \in Tasks : BootstrapSleep(t)
    \/ \E t \in Tasks, o \in SendOutcomes : LockSend(t, o)
    \/ \E t \in Tasks : LockResume(t)
    \/ \E t \in Tasks, o \in SendOutcomes : SyncSend(t, o)
    \/ \E t \in Tasks : SyncResume(t)
    \/ \E t \in Tasks : EnsureWsReturn(t)
    \/ \E t \in Tasks, o \in SendOutcomes : CommandSend(t, o)
    \/ \E t \in Tasks : CommandResume(t)
    \/ \E key \in AllKeys, type \in {TYPE_REQUEST_RESPONSE, TYPE_NOTIFICATION},
          data \in Payloads \cup {NoData} : SessDispatch(key, type, data)
    \/ \E t \in Tasks : SessTimeout(t)
    \/ SessReaderError
    \/ SessReaderEof

\* callers acquire and release capabilities and call verbs
NextSession ==
    \/ SessionSteps
    \/ \E t \in Tasks, d \in {"camera", "focuser"} : AcquireEnter(t, d)
    \/ \E t \in Tasks, d \in {"camera", "focuser"} : ReleaseEnter(t, d)
    \/ \E t \in Tasks : ReleaseLocked(t)
    \/ \E t \in Tasks : ReleaseClose(t)
    \/ \E t \in Tasks : ReleaseAfter(t)

\* the application shuts the session down while callers still use it
NextShutdown ==
    \/ SessionSteps
    \/ \E t \in Tasks : AcquireEnter(t, "camera")
    \/ \E t \in Tasks : ShutdownEnter(t)
    \/ \E t \in Tasks : ReleaseMasterLockLocked(t)
    \/ \E t \in Tasks, ok \in BOOLEAN : ReleaseMasterLockConnect(t, ok)
    \/ \E t \in Tasks, o \in SendOutcomes : UnlockSend(t, o)
    \/ \E t \in Tasks : UnlockResume(t)
    \/ \E t \in Tasks : ShutdownClose(t)
    \/ \E t \in Tasks : ShutdownFinish(t)

SpecSession == InitSession /\ [][NextSession]_vars

SpecShutdown == InitSession /\ [][NextShutdown]_vars

\* acquire, release, shutdown and capability verbs on one session
NextLocks ==
    \/ NextSession
    \/ \E t \in Tasks : ShutdownEnter(t)
    \/ \E t \in Tasks : ReleaseMasterLockLocked(t)
    \/ \E t \in Tasks, ok \in BOOLEAN : ReleaseMasterLockConnect(t, ok)
    \/ \E t \in Tasks, o \in SendOutcomes : UnlockSend(t, o)
    \/ \E t \in Tasks : UnlockResume(t)
    \/ \E t \in Tasks : ShutdownClose(t)
    \/ \E t \in Tasks : ShutdownFinish(t)

SpecLocks == InitSession /\ [][NextLocks]_vars

(* ======================= Part 3: the camera ============================ *)
(* camera_connect / camera_disconnect (through the router's put_connected),
   camera_start_exposure (through the router's start_exposure, or called
   directly as the tests do), camera_abort_exposure, the retrieval task
   _fetch_capture and shutdown.  The command channel is taken as a whole
   here: a step that issues a device command stands for the command and its
   answer, and _ensure_ws for the connect and the lock protocol of Part 2. *)

(* ---- the steps of Part 3 leave the tables of the channel and the tasks of
        Part 2 alone ---- *)
CamQuiet ==
    UNCHANGED <<pending, pending_aliases, future, notifications, delivered, call,
                task, locks, connBoot, devVars>>

\* the steps of the camera are told apart by the positions of the calls; the
\* steps the claims are about say how they ended
CamStep == Op("camera")

CamOp(name, outcome) == [Op(name) EXCEPT !.outcome = outcome]

ChannelAsIs ==
    UNCHANGED <<connected, master_lock_acquired, ws_bootstrapped, time_synced,
                temperature_task>>

\* callers are interchangeable: the first free one starts the next operation
CamStartable(t) ==
    /\ ccall[t].pc = "idle"
    /\ \A u \in Tasks : u < t => ccall[u].pc # "idle"
    /\ opsStarted < MaxCamOps

EnsureWsOutcomes == {"connect_failed", "denied", "granted"}

(* _ensure_ws, lines 183-197, as one step: connect() (failing only when the
   channel is down), the reset of the flags after a new connection, the
   bootstrap and the lock request of _ensure_master_lock (granted or denied),
   and the start of the temperature task. *)
CamEnsureWs(outcome) ==
    IF outcome = "connect_failed"
    THEN /\ ~connected
         /\ ChannelAsIs
    ELSE /\ connected' = TRUE
         /\ (connected /\ master_lock_acquired) => outcome = "granted"
         /\ master_lock_acquired' = (outcome = "granted")
         /\ ws_bootstrapped' = IF connected /\ master_lock_acquired
                               THEN ws_bootstrapped ELSE TRUE
         /\ time_synced' = IF outcome = "granted" THEN TRUE
                           ELSE IF connected THEN time_synced ELSE FALSE
         /\ temperature_task' = IF temperature_task \in {"none", "done"} THEN "live"
                                ELSE temperature_task

\* a device command through _send_and_check / _send_command: send_request
\* connects by itself when the channel is down (ws_client.py line 129)
CamCommand(ok) ==
    /\ connected' = (connected \/ ok)
    /\ UNCHANGED <<master_lock_acquired, ws_bootstrapped, time_synced, temperature_task>>

\* _ensure_params_config, lines 1183-1194
EnsureParamsConfig(c, httpOk) ==
    IF c.params_config # None THEN c
    ELSE IF httpOk THEN [c EXCEPT !.params_config = "payload", !.filter_options = None]
         ELSE c

\* _get_exposure_resolver, lines 1196-1207
GetExposureResolver(c, httpOk) ==
    IF c.exposure_resolver # None THEN c
    ELSE LET c1 == EnsureParamsConfig(c, httpOk)
         IN [c1 EXCEPT !.exposure_resolver =
                 IF c1.params_config = None THEN None ELSE "resolver"]

\* _get_filter_options, lines 1413-1523
GetFilterOptions(c, httpOk) ==
    IF c.filter_options # None THEN c
    ELSE LET c1 == EnsureParamsConfig(c, httpOk)
         IN [c1 EXCEPT !.filter_options =
                 IF c1.params_config = None THEN "fallback" ELSE "options"]

(* ---- devices/camera.py put_connected, lines 414-435 ---- *)
\* Connected = true: session.acquire("camera") increments the count
PutConnectedTrue(t) ==
    /\ CamStartable(t)
    /\ opsStarted' = opsStarted + 1
    /\ refs' = [refs EXCEPT !["camera"] = @ + 1]
    /\ ccall' = [ccall EXCEPT ![t] = [IdleCamCall EXCEPT !.op = "connect",
                                                         !.pc = "pc_acquire"]]
    /\ lastOp' = CamStep
    /\ ChannelAsIs /\ CamQuiet
    /\ UNCHANGED <<faults, camera_state, capture, caches, router_connected, device>>

\* acquire, lines 718-725: _ensure_ws, the rollback when it raises; then
\* camera_connect, line 973
CamAcquire(t, outcome) ==
    /\ ccall[t].pc = "pc_acquire"
    /\ CamEnsureWs(outcome)
    /\ IF outcome = "connect_failed"
       THEN /\ refs' = Rollback(refs, "camera")
            /\ ccall' = [ccall EXCEPT ![t] = IdleCamCall]
            /\ UNCHANGED camera_state
       ELSE /\ camera_state' = [camera_state EXCEPT !.connected = TRUE]
            /\ ccall' = [ccall EXCEPT ![t].pc = "pc_open"]
            /\ UNCHANGED refs
    /\ Fault(outcome # "granted")
    /\ lastOp' = CamStep
    /\ CamQuiet
    /\ UNCHANGED <<opsStarted, capture, caches, router_connected, device>>

\* camera_connect, lines 976-984: _ensure_ws and the open-camera command;
\* the router copies the flag when nothing raised (line 434)
CamOpenCamera(t, outcome, ok) ==
    /\ ccall[t].pc = "pc_open"
    /\ CamEnsureWs(outcome)
    /\ IF outcome # "connect_failed" /\ ok
       THEN /\ router_connected' = camera_state.connected
            /\ ccall' = [ccall EXCEPT ![t] = IdleCamCall]
       ELSE /\ UNCHANGED router_connected
            /\ ccall' = [ccall EXCEPT ![t].pc = "pc_release", ![t].ok = FALSE]
    /\ Fault(outcome # "granted" \/ ~ok)
    /\ lastOp' = CamStep
    /\ CamQuiet
    /\ UNCHANGED <<opsStarted, refs, camera_state, capture, caches, device>>

\* release("camera"), lines 727-733, called by put_connected after a failed
\* connect and after every disconnect
CamRelease(t) ==
    /\ ccall[t].pc = "pc_release"
    /\ LET r == [refs EXCEPT !["camera"] = IF @ - 1 > 0 THEN @ - 1 ELSE 0] IN
          /\ refs' = r
          /\ IF AllReleased(r, "camera")
             THEN /\ connected' = FALSE
                  /\ master_lock_acquired' = FALSE
             ELSE UNCHANGED <<connected, master_lock_acquired>>
    /\ router_connected' = IF ccall[t].ok THEN camera_state.connected
                           ELSE router_connected
    /\ ccall' = [ccall EXCEPT ![t] = IdleCamCall]
    /\ lastOp' = CamStep
    /\ CamQuiet
    /\ UNCHANGED <<ws_bootstrapped, time_synced, temperature_task, opsStarted, faults,
                   camera_state, capture, caches, device>>

\* camera_disconnect, lines 991-994, after the retrieval task is out of the way
DisconnectReset(cs) ==
    [cs EXCEPT !.capture_task = NoTask, !.connected = FALSE, !.image = None,
               !.start_time = 0]

\* Connected = false: camera_disconnect, lines 987-990
PutConnectedFalse(t) ==
    /\ CamStartable(t)
    /\ opsStarted' = opsStarted + 1
    /\ LET k == camera_state.capture_task IN
          IF ~Done(capture, k)
          THEN /\ capture' = CancelTask(capture, k)
               /\ ccall' = [ccall EXCEPT ![t] = [IdleCamCall EXCEPT
                               !.op = "disconnect", !.pc = "cd_wait", !.wait = k]]
               /\ UNCHANGED camera_state
          ELSE /\ camera_state' = DisconnectReset(camera_state)
               /\ ccall' = [ccall EXCEPT ![t] = [IdleCamCall EXCEPT
                               !.op = "disconnect", !.pc = "cd_close"]]
               /\ UNCHANGED capture
    /\ lastOp' = CamStep
    /\ ChannelAsIs /\ CamQuiet
    /\ UNCHANGED <<refs, faults, caches, router_connected, device>>

\* the awaited retrieval task has ended
CamDisconnectResume(t) ==
    /\ ccall[t].pc = "cd_wait"
    /\ Done(capture, ccall[t].wait)
    /\ camera_state' = DisconnectReset(camera_state)
    /\ ccall' = [ccall EXCEPT ![t].pc = "cd_close", ![t].wait = NoTask]
    /\ lastOp' = CamStep
    /\ ChannelAsIs /\ CamQuiet
    /\ UNCHANGED <<opsStarted, refs, faults, capture, caches, router_connected, device>>

\* camera_disconnect, lines 997-1003: _ensure_ws and the close-camera command
CamCloseCamera(t, outcome, ok) ==
    /\ ccall[t].pc = "cd_close"
    /\ CamEnsureWs(outcome)
    /\ ccall' = [ccall EXCEPT ![t].pc = "pc_release",
                              ![t].ok = (outcome # "connect_failed" /\ ok)]
    /\ Fault(outcome # "granted" \/ ~ok)
    /\ lastOp' = CamStep
    /\ CamQuiet
    /\ UNCHANGED <<opsStarted, refs, camera_state, capture, caches, router_connected,
                   device>>

(* ---- camera_start_exposure, lines 1005-1125, called by the router's
        start_exposure (devices/camera.py lines 483-576) or directly ---- *)
StartVias == {"endpoint", "direct"}
Durations == {0, 1}

\* the call is made; the router rejects it (lines 493-497) or the session
\* method runs up to its first await (lines 1012-1035)
CamStartExposure(t, via, duration, light, cwd) ==
    /\ CamStartable(t)
    /\ opsStarted' = opsStarted + 1
    /\ IF via = "endpoint" /\ EndpointRejects(router_connected, duration)
       THEN /\ lastOp' = [CamOp("start_exposure", "rejected") EXCEPT
                             !.key = via, !.type = duration]
            /\ UNCHANGED <<camera_state, capture, ccall>>
       ELSE /\ lastOp' = [CamOp("start_exposure", "accepted") EXCEPT
                             !.key = via, !.type = duration]
            /\ camera_state' = StartReset(camera_state, duration, Now)
            /\ capture' = CancelTask(capture, camera_state.capture_task)
            /\ ccall' = [ccall EXCEPT ![t] = [IdleCamCall EXCEPT
                            !.op = "start", !.pc = "cs_ensure_ws", !.light = light,
                            !.cwd = cwd]]
    /\ overlapped' = (\/ overlapped
                      \/ /\ ccall'[t].op = "start"
                         /\ \E u \in Tasks \ {t} : ccall[u].op = "start")
    /\ ChannelAsIs
    /\ UNCHANGED <<pending, pending_aliases, future, notifications, delivered, call,
                   task, locks, connBoot, deviceVars, unreferenced>>
    /\ UNCHANGED <<refs, faults, caches, router_connected, device>>

\* line 1035
CamStartEnsureWs(t, outcome) ==
    /\ ccall[t].pc = "cs_ensure_ws"
    /\ CamEnsureWs(outcome)
    /\ ccall' = [ccall EXCEPT ![t] = IF outcome = "connect_failed" THEN IdleCamCall
                                     ELSE [@ EXCEPT !.pc = "cs_settings"]]
    /\ Fault(outcome # "granted")
    /\ lastOp' = CamStep
    /\ CamQuiet
    /\ UNCHANGED <<opsStarted, refs, camera_state, capture, caches, router_connected,
                   device>>

\* lines 1036-1050: exposure, gain and filter settings and the go-live
\* command; every failure in them is logged and swallowed
CamStartSettings(t, httpOk, ok) ==
    /\ ccall[t].pc = "cs_settings"
    /\ caches' = GetFilterOptions(GetExposureResolver(caches, httpOk), httpOk)
    /\ CamCommand(ok)
    /\ ccall' = [ccall EXCEPT ![t].pc = IF ccall[t].light THEN "cs_dark"
                                        ELSE "cs_configure",
                              ![t].ok = FALSE]
    /\ Fault(~httpOk \/ ~ok)
    /\ lastOp' = CamStep
    /\ CamQuiet
    /\ UNCHANGED <<opsStarted, refs, camera_state, capture, router_connected, device>>

\* lines 1052-1070 with _ensure_dark_library
CamStartDark(t, code) ==
    /\ ccall[t].pc = "cs_dark"
    /\ LET res == EnsureDarkLibrary(code, ccall[t].cwd, camera_state.last_error) IN
          /\ camera_state' = [camera_state EXCEPT !.last_error = AfterDarkCheck(res)]
          /\ ccall' = [ccall EXCEPT ![t] =
                          IF res.raise THEN IdleCamCall
                          ELSE [@ EXCEPT !.pc = "cs_configure", !.dark = code]]
          /\ lastOp' = CamOp("dark_check", code)
    /\ CamCommand(code # "no_response")
    /\ Fault(code \in {"CODE_OTHER", "no_response"})
    /\ CamQuiet
    /\ UNCHANGED <<opsStarted, refs, capture, caches, router_connected, device>>

\* line 1083, _configure_astro_capture, lines 1766-1836
CamStartConfigure(t, httpOk, ok) ==
    /\ ccall[t].pc = "cs_configure"
    /\ caches' = EnsureParamsConfig(caches, httpOk)
    /\ IF caches'.params_config = None
       THEN ChannelAsIs /\ ok
       ELSE CamCommand(ok)
    /\ ccall' = [ccall EXCEPT ![t].pc = "cs_baseline"]
    /\ Fault(~httpOk \/ ~ok)
    /\ lastOp' = CamStep
    /\ CamQuiet
    /\ UNCHANGED <<opsStarted, refs, camera_state, capture, router_connected, device>>

\* line 1084, _refresh_capture_baseline: the FTP listing is asked for the
\* latest entry, the album is not
CamStartBaseline(t, ok) ==
    /\ ccall[t].pc = "cs_baseline"
    /\ camera_state' = RefreshAlbumBaseline(
                           RefreshFtpBaseline(camera_state, device.ftp, ok))
    /\ ccall' = [ccall EXCEPT ![t].pc = "cs_start",
                              ![t].q_ftp = IF ok THEN device.ftp ELSE Unqueried]
    /\ Fault(~ok)
    /\ lastOp' = CamStep
    /\ ChannelAsIs /\ CamQuiet
    /\ UNCHANGED <<opsStarted, refs, capture, caches, router_connected, device>>

\* lines 1086-1125: the start-capture command and its answer
CamStartCapture(t, code) ==
    /\ ccall[t].pc = "cs_start"
    /\ code \in StartCodes
    /\ CamCommand(code # "timeout")
    /\ LET ans == StartAnswer(code)
           k == FreshId(capture)
       IN IF ans.started
          THEN /\ camera_state' = [camera_state EXCEPT !.last_error = None,
                                                       !.capture_task = k]
               /\ capture' = [capture EXCEPT ![k] =
                                 [NoCapture EXCEPT !.status = "running",
                                                   !.pc = "fc_sleep"]]
          ELSE /\ camera_state' = IF code = "timeout" THEN camera_state
                                  ELSE [camera_state EXCEPT !.last_error = ans.last_error]
               /\ UNCHANGED capture
    /\ lastOp' = [CamOp("start_capture", code) EXCEPT !.sent = TRUE,
                                                    !.raising = StartAnswer(code).raises]
    /\ ccall' = [ccall EXCEPT ![t] = IdleCamCall]
    /\ Fault(~StartAnswer(code).started)
    /\ CamQuiet
    /\ UNCHANGED <<opsStarted, refs, caches, router_connected, device>>

(* ---- camera_abort_exposure, lines 1127-1140 ---- *)
AbortReset(cs) ==
    [cs EXCEPT !.capture_task = NoTask, !.start_time = 0, !.image = None,
               !.last_error = "aborted"]

\* an abort that sends the stop command in every capture mode
AfterAbortResetAlwaysStops(cs) ==
    [IdleCamCall EXCEPT !.op = "abort", !.pc = "ab_stop"]

\* line 1139: the stop command is sent in astro mode only
AfterAbortReset(cs) ==
    IF cs.capture_mode = "astro" THEN [IdleCamCall EXCEPT !.op = "abort", !.pc = "ab_stop"]
    ELSE IdleCamCall

CamAbortExposure(t) ==
    /\ CamStartable(t)
    /\ opsStarted' = opsStarted + 1
    /\ LET k == camera_state.capture_task IN
          IF ~Done(capture, k)
          THEN /\ capture' = CancelTask(capture, k)
               /\ ccall' = [ccall EXCEPT ![t] = [IdleCamCall EXCEPT
                               !.op = "abort", !.pc = "ab_wait", !.wait = k]]
               /\ UNCHANGED camera_state
          ELSE /\ camera_state' = AbortReset(camera_state)
               /\ ccall' = [ccall EXCEPT ![t] = AfterAbortReset(camera_state)]
               /\ UNCHANGED capture
    /\ lastOp' = IF ccall'[t].pc = "idle"
                 THEN [CamOp("abort_done", "no_stop") EXCEPT !.caller = t]
                 ELSE CamStep
    /\ ChannelAsIs /\ CamQuiet
    /\ UNCHANGED <<refs, faults, caches, router_connected, device>>

CamAbortResume(t) ==
    /\ ccall[t].pc = "ab_wait"
    /\ Done(capture, ccall[t].wait)
    /\ camera_state' = AbortReset(camera_state)
    /\ ccall' = [ccall EXCEPT ![t] = AfterAbortReset(camera_state)]
    /\ lastOp' = IF ccall'[t].pc = "idle"
                 THEN [CamOp("abort_done", "no_stop") EXCEPT !.caller = t]
                 ELSE CamStep
    /\ ChannelAsIs /\ CamQuiet
    /\ UNCHANGED <<opsStarted, refs, faults, capture, caches, router_connected, device>>

\* _stop_astro_capture, lines 1995-2006: failures are swallowed
CamAbortStop(t, ok) ==
    /\ ccall[t].pc = "ab_stop"
    /\ CamCommand(ok)
    /\ ccall' = [ccall EXCEPT ![t] = IdleCamCall]
    /\ Fault(~ok)
    /\ lastOp' = [CamOp("abort_done", "stop_sent") EXCEPT !.caller = t]
    /\ CamQuiet
    /\ UNCHANGED <<opsStarted, refs, camera_state, capture, caches, router_connected,
                   device>>

(* ---- shutdown, lines 735-758, with _release_master_lock, lines 595-675 ---- *)
\* after the retrieval task: line 740, then the temperature task, lines 742-747
ShutdownAfterCapture(t) ==
    /\ camera_state' = [camera_state EXCEPT !.capture_task = NoTask]
    /\ IF temperature_task # "none"
       THEN /\ temperature_task' = IF temperature_task = "live" THEN "cancelling"
                                   ELSE temperature_task
            /\ ccall' = [ccall EXCEPT ![t] = [IdleCamCall EXCEPT
                            !.op = "shutdown", !.pc = "sd_wait_temperature",
                            !.ok = (temperature_task = "done")]]
       ELSE /\ UNCHANGED temperature_task
            /\ ccall' = [ccall EXCEPT ![t] = [IdleCamCall EXCEPT
                            !.op = "shutdown", !.pc = "sd_release"]]

CamShutdown(t) ==
    /\ CamStartable(t)
    /\ opsStarted' = opsStarted + 1
    /\ LET k == camera_state.capture_task IN
          IF ~Done(capture, k)
          THEN /\ capture' = CancelTask(capture, k)
               /\ ccall' = [ccall EXCEPT ![t] = [IdleCamCall EXCEPT
                               !.op = "shutdown", !.pc = "sd_wait_capture", !.wait = k]]
               /\ UNCHANGED <<camera_state, temperature_task>>
          ELSE /\ ShutdownAfterCapture(t)
               /\ UNCHANGED capture
    /\ lastOp' = CamStep
    /\ CamQuiet
    /\ UNCHANGED <<connected, master_lock_acquired, ws_bootstrapped, time_synced,
                   refs, faults, caches, router_connected, device>>

CamShutdownCaptureDone(t) ==
    /\ ccall[t].pc = "sd_wait_capture"
    /\ Done(capture, ccall[t].wait)
    /\ ShutdownAfterCapture(t)
    /\ lastOp' = CamStep
    /\ CamQuiet
    /\ UNCHANGED <<connected, master_lock_acquired, ws_bootstrapped, time_synced,
                   opsStarted, refs, faults, capture, caches, router_connected, device>>

\* lines 745-747: the task shutdown cancelled has ended (ok); the attribute
\* is cleared, whatever task it names by now
CamShutdownTemperatureDone(t) ==
    /\ ccall[t].pc = "sd_wait_temperature"
    /\ ccall[t].ok
    /\ temperature_task' = "none"
    /\ ccall' = [ccall EXCEPT ![t].pc = "sd_release", ![t].ok = FALSE]
    /\ lastOp' = CamStep
    /\ CamQuiet
    /\ UNCHANGED <<connected, master_lock_acquired, ws_bootstrapped, time_synced,
                   opsStarted, refs, faults, camera_state, capture, caches,
                   router_connected, device>>

ReleaseOutcomes == {"not_held", "connect_failed", "send_failed", "sent"}

\* a release that asks the device to unlock whether it holds the lock or not
UnlockRequestsAlways(held, outcome) == 1

\* the unlock requests _release_master_lock puts on the channel, lines
\* 601-637: none when the lock is not held (602), none when the connect (606)
\* or the send (630) raises
UnlockRequests(held, outcome) == IF held /\ outcome = "sent" THEN 1 ELSE 0

\* _release_master_lock, lines 600-675: nothing when the lock is not held;
\* else a reconnect when the channel is down, the unlock request, and the
\* flag cleared whatever the answer
CamReleaseMasterLock(t, outcome) ==
    /\ ccall[t].pc = "sd_release"
    /\ outcome = "not_held" <=> ~master_lock_acquired
    /\ outcome = "connect_failed" => ~connected
    /\ connected' = IF outcome \in {"send_failed", "sent"} THEN TRUE ELSE connected
    /\ master_lock_acquired' = FALSE
    /\ ccall' = [ccall EXCEPT ![t].pc = "sd_close",
                              ![t].held = master_lock_acquired,
                              ![t].up = connected,
                              ![t].ok = outcome \in {"not_held", "sent"},
                              ![t].unlocks = @ + UnlockRequests(master_lock_acquired,
                                                                outcome)]
    /\ Fault(outcome \in {"connect_failed", "send_failed"})
    /\ lastOp' = CamStep
    /\ CamQuiet
    /\ UNCHANGED <<ws_bootstrapped, time_synced, temperature_task, opsStarted, refs,
                   camera_state, capture, caches, router_connected, device>>

\* lines 751-753: the channel is closed
CamShutdownClose(t) ==
    /\ ccall[t].pc = "sd_close"
    /\ connected' = FALSE
    /\ ccall' = [ccall EXCEPT ![t].pc = "sd_finish"]
    /\ lastOp' = CamStep
    /\ CamQuiet
    /\ UNCHANGED <<master_lock_acquired, ws_bootstrapped, time_synced,
                   temperature_task, opsStarted, refs, faults, camera_state, capture,
                   caches, router_connected, device>>

\* lines 755-758
CamShutdownFinish(t) ==
    /\ ccall[t].pc = "sd_finish"
    /\ master_lock_acquired' = FALSE
    /\ ws_bootstrapped' = FALSE
    /\ refs' = NoRefs
    /\ lastOp' = [CamOp("shutdown_done",
                        IF ~ccall[t].held THEN "not_held"
                        ELSE IF ccall[t].ok THEN "held" ELSE "held_no_channel")
                     EXCEPT !.type = ccall[t].unlocks,
                            !.key = IF ccall[t].up THEN "up" ELSE "down"]
    /\ ccall' = [ccall EXCEPT ![t] = IdleCamCall]
    /\ CamQuiet
    /\ UNCHANGED <<connected, time_synced, temperature_task, opsStarted, faults,
                   camera_state, capture, caches, router_connected, device>>

(* ---- the retrieval task, _fetch_capture, lines 2174-2197 ---- *)
CaptureStep(k, pc) ==
    /\ capture[k].status = "running"
    /\ capture[k].pc = pc
    /\ ~capture[k].cancel

RetrievalQuiet ==
    /\ CamQuiet
    /\ UNCHANGED <<opsStarted, refs, ccall, caches, router_connected, device>>

\* line 2175: the sleep is over; _attempt_ftp_capture reads its baseline
CaptureSleep(k) ==
    /\ CaptureStep(k, "fc_sleep")
    /\ capture' = [capture EXCEPT ![k].pc = "fc_ftp",
                                  ![k].baseline = camera_state.pending_ftp_baseline]
    /\ lastOp' = CamStep
    /\ ChannelAsIs /\ RetrievalQuiet
    /\ UNCHANGED <<faults, camera_state>>

\* ftp_client.wait_for_new_photo, lines 64-105: the newest file on the device
\* is new for the baseline of the attempt
NewOnFtp(k) == device.ftp # 0 /\ IsNewEntry(device.ftp, capture[k].baseline)

\* _attempt_album_capture, lines 2258-2264, for the newest album entry
NewInAlbum(k) ==
    device.album # 0 /\ IsNewAlbum(device.album, capture[k].baseline,
                                    camera_state.last_album_mod_time)

\* _attempt_ftp_capture: wait_for_new_photo returns a new entry or nothing; it
\* returns nothing while a new file lies there only when the listing fails
CaptureFtp(k, outcome) ==
    /\ CaptureStep(k, "fc_ftp")
    /\ outcome \in FtpOutcomes
    /\ outcome # "timeout" => NewOnFtp(k)
    /\ Fault(outcome = "decode_failed" \/ (outcome = "timeout" /\ NewOnFtp(k)))
    /\ camera_state' = AttemptFtpCapture(camera_state, device.ftp, outcome)
    /\ capture' = [capture EXCEPT ![k].pc = "fc_stop",
                                  ![k].ftp = outcome]
    /\ lastOp' = CamStep
    /\ ChannelAsIs /\ RetrievalQuiet

\* lines 2182-2190: _stop_astro_capture in the finally branch, then the
\* album attempt if the FTP attempt failed and there is no image
CaptureStop(k, ok) ==
    /\ CaptureStep(k, "fc_stop")
    /\ CamCommand(ok)
    /\ capture' = [capture EXCEPT ![k] =
           IF @.unwinding THEN [@ EXCEPT !.status = "done", !.pc = "-"]
           ELSE IF @.ftp = "stored" \/ camera_state.image # None
                THEN [@ EXCEPT !.pc = "fc_go_live"]
                ELSE [@ EXCEPT !.pc = "fc_album",
                               !.baseline = camera_state.pending_album_baseline]]
    /\ Fault(~ok)
    /\ lastOp' = CamStep
    /\ RetrievalQuiet
    /\ UNCHANGED camera_state

\* _attempt_album_capture; line 2190: image_captured = state.image is not None
CaptureAlbum(k, outcome) ==
    /\ CaptureStep(k, "fc_album")
    /\ outcome \in AlbumOutcomes
    /\ outcome # "timeout" => NewInAlbum(k)
    /\ Fault(outcome \in {"download_failed", "decode_failed"}
             \/ (outcome = "timeout" /\ NewInAlbum(k)))
    /\ camera_state' = AttemptAlbumCapture(camera_state, device.album, outcome)
    /\ capture' = [capture EXCEPT ![k] =
           IF camera_state'.image # None THEN [@ EXCEPT !.pc = "fc_go_live"]
           ELSE [@ EXCEPT !.status = "done", !.pc = "-"]]
    /\ lastOp' = [CamOp("fetch_album", outcome) EXCEPT !.key = capture[k].ftp]
    /\ ChannelAsIs /\ RetrievalQuiet

\* lines 2196-2197: _astro_go_live after a captured image
CaptureGoLive(k, ok) ==
    /\ CaptureStep(k, "fc_go_live")
    /\ CamCommand(ok)
    /\ capture' = [capture EXCEPT ![k].status = "done", ![k].pc = "-"]
    /\ Fault(~ok)
    /\ lastOp' = CamStep
    /\ RetrievalQuiet
    /\ UNCHANGED camera_state

\* the CancelledError reaches the task at its await: inside the try of lines
\* 2180-2184 the finally branch still stops the capture; elsewhere the task ends
CaptureCancelled(k) ==
    /\ capture[k].status = "running"
    /\ capture[k].cancel
    /\ capture' = [capture EXCEPT ![k] =
           IF @.pc = "fc_ftp"
           THEN [@ EXCEPT !.pc = "fc_stop", !.cancel = FALSE, !.unwinding = TRUE]
           ELSE [@ EXCEPT !.status = "done", !.pc = "-", !.cancel = FALSE]]
    /\ lastOp' = CamStep
    /\ ChannelAsIs /\ RetrievalQuiet
    /\ UNCHANGED <<faults, camera_state>>

(* ---- the environment of the camera ---- *)
\* the cancelled temperature task ends (lines 379-381)
TemperatureCancelled ==
    /\ temperature_task = "cancelling"
    /\ temperature_task' = "done"
    /\ ccall' = [t \in Tasks |->
                    IF ccall[t].pc = "sd_wait_temperature"
                    THEN [ccall[t] EXCEPT !.ok = TRUE] ELSE ccall[t]]
    /\ lastOp' = Op("temperature_cancelled")
    /\ CamQuiet
    /\ UNCHANGED <<connected, master_lock_acquired, ws_bootstrapped, time_synced,
                   opsStarted, refs, faults, camera_state, capture, caches,
                   router_connected, device>>

\* the device stores a new artifact: a file on the FTP service, an album entry
DeviceStores(kind) ==
    /\ device[kind] < MaxArtifacts
    /\ device' = [device EXCEPT ![kind] = @ + 1]
    /\ lastOp' = Op("device_stores")
    /\ ChannelAsIs /\ CamQuiet
    /\ UNCHANGED <<opsStarted, refs, faults, camera_state, capture, ccall, caches,
                   router_connected>>

\* the stream of the command channel ends (_reader_loop, lines 192-204)
CamChannelDrop ==
    /\ connected
    /\ faults < MaxFaults
    /\ faults' = faults + 1
    /\ connected' = FALSE
    /\ lastOp' = Op("channel_drop")
    /\ CamQuiet
    /\ UNCHANGED <<master_lock_acquired, ws_bootstrapped, time_synced, temperature_task,
                   opsStarted, refs, camera_state, capture, ccall, caches,
                   router_connected, device>>

InitCamera == InitSession

NextCamera ==
    \/ \E t \in Tasks : PutConnectedTrue(t)
    \/ \E t \in Tasks, o \in EnsureWsOutcomes : CamAcquire(t, o)
    \/ \E t \in Tasks, o \in EnsureWsOutcomes, ok \in BOOLEAN : CamOpenCamera(t, o, ok)
    \/ \E t \in Tasks : CamRelease(t)
    \/ \E t \in Tasks : PutConnectedFalse(t)
    \/ \E t \in Tasks : CamDisconnectResume(t)
    \/ \E t \in Tasks, o \in EnsureWsOutcomes, ok \in BOOLEAN : CamCloseCamera(t, o, ok)
    \/ \E t \in Tasks, via \in StartVias, d \in Durations, light \in BOOLEAN,
          cwd \in BOOLEAN : CamStartExposure(t, via, d, light, cwd)
    \/ \E t \in Tasks, o \in EnsureWsOutcomes : CamStartEnsureWs(t, o)
    \/ \E t \in Tasks, h \in BOOLEAN, ok \in BOOLEAN : CamStartSettings(t, h, ok)
    \/ \E t \in Tasks, code \in DarkCodes : CamStartDark(t, code)
    \/ \E t \in Tasks, h \in BOOLEAN, ok \in BOOLEAN : CamStartConfigure(t, h, ok)
    \/ \E t \in Tasks, ok \in BOOLEAN : CamStartBaseline(t, ok)
    \/ \E t \in Tasks, code \in StartCodes : CamStartCapture(t, code)
    \/ \E t \in Tasks : CamAbortExposure(t)
    \/ \E t \in Tasks : CamAbortResume(t)
    \/ \E t \in Tasks, ok \in BOOLEAN : CamAbortStop(t, ok)
    \/ \E t \in Tasks : CamShutdown(t)
    \/ \E t \in Tasks : CamShutdownCaptureDone(t)
    \/ \E t \in Tasks : CamShutdownTemperatureDone(t)
    \/ \E t \in Tasks, o \in ReleaseOutcomes : CamReleaseMasterLock(t, o)
    \/ \E t \in Tasks : CamShutdownClose(t)
    \/ \E t \in Tasks : CamShutdownFinish(t)
    \/ \E k \in CaptureIds : CaptureSleep(k)
    \/ \E k \in CaptureIds, o \in FtpOutcomes : CaptureFtp(k, o)
    \/ \E k \in CaptureIds, ok \in BOOLEAN : CaptureStop(k, ok)
    \/ \E k \in CaptureIds, o \in AlbumOutcomes : CaptureAlbum(k, o)
    \/ \E k \in CaptureIds, ok \in BOOLEAN : CaptureGoLive(k, ok)
    \/ \E k \in CaptureIds : CaptureCancelled(k)
    \/ TemperatureCancelled
    \/ \E kind \in {"ftp", "album"} : DeviceStores(kind)
    \/ CamChannelDrop

SpecCamera == InitCamera /\ [][NextCamera]_vars

(* ======================= Claims on DwarfSession ======================== *)

\* the tasks whose request is registered and waits for its answer
InFlight == {t \in Tasks : task[t].pc \in AwaitPcs /\ future[t].state = "pending"}

\* C6: at most one correlated request of the session awaits its response at
\* any time, the bootstrap commands and the master-lock acquire and release
\* requests included.
C6_OneRequestInFlight == Cardinality(InFlight) <= 1

\* DwarfWsClient._lock, held by connect() and close()
ChannelLock == "_ws_client._lock"

\* the order of the claim: session lock, master-lock lock, command lock,
\* the channel's own lock
LockRank(l) == CASE l = "_lock" -> 1
                 [] l = "_master_lock_lock" -> 2
                 [] l = "_ws_command_lock" -> 3
                 [] OTHER -> 4

\* positions inside connect(), which holds the channel's lock while the
\* transport connects
ConnectPcs == {"connecting", "sd_connecting"}

\* positions from which the next step passes through the channel's lock:
\* close(), or the connect() at the head of send_request
ChannelPcs == {"rel_close", "sd_close", "lock_send", "unlock_send"}

\* positions at which a command takes the command lock and sends under it
CommandPcs == {"boot_enter", "boot_wait", "sync_enter", "sync_wait",
               "cmd_enter", "cmd_wait"}

\* the locks a task holds
Held(t) ==
    {l \in DOMAIN locks : locks[l] = t}
        \cup (IF task[t].pc \in ConnectPcs THEN {ChannelLock} ELSE {})

\* the locks the next step of a task takes, in the order it takes them
Wanted(t) ==
    LET pc == task[t].pc
        first == IF pc \in WaitPcs THEN <<WaitLock(pc)>>
                 ELSE IF pc \in TransientPcs \ {"lock_send", "unlock_send", "ews_return"}
                      THEN <<LockOf(pc)>>
                      ELSE <<>>
    IN first \o (IF pc \in ChannelPcs \cup CommandPcs THEN <<ChannelLock>> ELSE <<>>)

\* every lock a task is about to take comes later in the order than every
\* lock it holds, and it takes them in the order
LocksInOrder ==
    \A t \in Tasks :
        LET w == Wanted(t) IN
        /\ \A h \in Held(t), i \in DOMAIN w : LockRank(h) < LockRank(w[i])
        /\ \A i, j \in DOMAIN w : i < j => LockRank(w[i]) < LockRank(w[j])

\* task t waits for a lock that task u holds
WaitsFor(t, u) ==
    /\ task[t].pc \in WaitPcs
    /\ locks[WaitLock(task[t].pc)] = u

\* the holder of the lock a task waits for
Holder(t) == IF task[t].pc \in WaitPcs THEN locks[WaitLock(task[t].pc)] ELSE 0

\* following the holders from a waiting task ends at a task that does not
\* wait for a lock: no task waits for itself and no waits form a cycle
RECURSIVE EndsAtRunning(_, _)
EndsAtRunning(t, n) ==
    IF Holder(t) = 0 THEN TRUE
    ELSE IF n = 0 THEN FALSE
    ELSE EndsAtRunning(Holder(t), n - 1)

NoWaitCycle == \A t \in Tasks : EndsAtRunning(t, NumTasks)

(* C36: the session lock, the master-lock lock, the command lock and the
   channel's own lock are only ever taken in that order, no task waits for
   an earlier lock of this order while it holds a later one, and no
   interleaving of acquire, release, shutdown and capability commands ends
   in tasks waiting for each other's locks. *)
C36_LocksTakenInOrder == LocksInOrder /\ NoWaitCycle

\* a task that holds the session lock and the master-lock lock waits for the
\* command lock, which a capability command of the other task holds
C36_Witness ==
    \E t, u \in Tasks :
        /\ locks["_lock"] = t
        /\ locks["_master_lock_lock"] = t
        /\ task[t].pc \in CommandPcs \cap WaitPcs
        /\ locks["_ws_command_lock"] = u
        /\ u # t

(* C37: once a release has brought every reference count to zero and closed
   the channel, the channel stays disconnected and the master-lock flag
   stays false until the next acquire, whatever verbs are called in between
   without an acquire. *)
C37_ClosedUntilNextAcquire ==
    unreferenced => (~connected /\ ~master_lock_acquired)

\* the part of C37 that holds: until the next acquire the counts stay at zero
C37_CountsStayZero ==
    unreferenced => \A d \in Devices : refs[d] = 0

\* C7 as stated: when connecting fails inside acquire(d), the call ends with
\* the error and every reference count equals its value before the call.
C7_FailedAcquireRestoresCounts ==
    [][\A t \in Tasks :
          (task[t].op = "acquire" /\ task[t].pc = "connecting" /\ task'[t].pc = "idle")
              => (refs' = task[t].refs0 /\ lastOp'.op = "acquire_failed")]_vars

\* C7 amended: when connecting fails inside acquire(d) and no shutdown() has
\* reset the counts while the call was in progress, the call ends with the
\* error and every reference count equals its value before the call.
C7_FailedAcquireRestoresCountsUnlessReset ==
    [][\A t \in Tasks :
          (/\ task[t].op = "acquire" /\ task[t].pc = "connecting" /\ task'[t].pc = "idle"
           /\ ~task[t].refs_reset)
              => (refs' = task[t].refs0 /\ lastOp'.op = "acquire_failed")]_vars

\* an acquire of the camera has just failed to connect and the count is back
\* at the positive value it had before the call
C7_Witness ==
    /\ lastOp.op = "acquire_failed"
    /\ refs["camera"] = 1
    /\ ~connected

\* C8: release(d) lowers d's count by one, never below zero; it goes on to
\* close the channel and clear the master-lock flag exactly when all four
\* counts are zero after the decrement, and otherwise leaves both alone; the
\* channel is closed only with every count at zero.
C8_ReleaseClosesIffAllZero ==
    [][\A t \in Tasks :
          /\ (task[t].pc \in {"rel_enter", "rel_wait"}
                /\ task'[t].pc \notin {"rel_enter", "rel_wait"})
               => /\ refs' = [refs EXCEPT ![task[t].dev] = IF @ > 0 THEN @ - 1 ELSE 0]
                  /\ task'[t].pc = "rel_close" <=> (\A x \in Devices : refs'[x] = 0)
                  /\ task'[t].pc # "rel_close"
                       => /\ task'[t].pc = "idle"
                          /\ connected' = connected
                          /\ master_lock_acquired' = master_lock_acquired
          /\ (task[t].pc = "rel_close" /\ task'[t].pc # "rel_close")
               => /\ task'[t].pc = "rel_after"
                  /\ ~connected'
                  /\ \A x \in Devices : refs[x] = 0
          /\ (task[t].pc = "rel_after" /\ task'[t].pc # "rel_after")
               => /\ ~master_lock_acquired'
                  /\ \A x \in Devices : refs'[x] = 0]_vars

\* a release that brought every count to zero has closed the channel and is
\* about to clear the flag of a lock that was held
C8_Witness ==
    \E t \in Tasks :
        /\ task[t].pc = "rel_after"
        /\ ~connected
        /\ master_lock_acquired
        /\ \A x \in Devices : refs[x] = 0

\* the answers to the lock request that the claim lists: a non-zero code, a
\* notification without exclusive ownership, a timeout, a transport failure
C9_Failed(f) ==
    \/ f.state \in {"exception", "cancelled"}
    \/ f.state = "result" /\ f.cls = ComResponse /\ f.data.f1 # 0
    \/ f.state = "result" /\ f.cls = ResNotifyHostSlaveMode
          /\ ~(f.data.f1 = 0 /\ f.data.f2)

C9_BootPcs == {"boot_enter", "boot_wait", "boot_await", "boot_sleep"}

\* C9: a lock request that fails (at the send or by its answer) makes
\* _ensure_master_lock return normally with the flag false; an acquire that
\* returns from _ensure_ws succeeds with its increment kept; and an
\* _ensure_ws that finds the flag false on a connected channel runs the
\* bootstrap (if due) and comes to the lock request again.
C9_LockFailureSwallowed ==
    [][\A t \in Tasks :
          /\ (task[t].pc = "lock_await" /\ task'[t].pc # "lock_await"
                /\ C9_Failed(future[t]))
               => (~master_lock_acquired' /\ task'[t].pc = "ews_return")
          /\ (task[t].pc = "lock_send" /\ task'[t].pc \notin {"lock_send", "lock_await"})
               => (~master_lock_acquired' /\ task'[t].pc = "ews_return")
          /\ (task[t].pc = "ews_return" /\ task[t].op = "acquire"
                /\ task'[t].pc # "ews_return")
               => /\ task'[t].pc = "idle"
                  /\ lastOp'.op = "acquire_done"
                  /\ refs' = refs
                  /\ refs[task[t].dev] = task[t].refs0[task[t].dev] + 1
          /\ (task[t].pc \in {"idle", "acq_enter", "acq_wait", "connecting",
                              "eml_enter", "eml_wait"}
                /\ task'[t].pc = "ews_return")
               => (master_lock_acquired' \/ ~connected')
          /\ (task[t].pc \in {"eml_enter", "eml_wait"}
                /\ task'[t].pc \notin {"eml_enter", "eml_wait"}
                /\ ~master_lock_acquired /\ connected)
               => task'[t].pc \in {"boot_enter", "lock_send"}
          /\ (task[t].pc \in C9_BootPcs /\ task'[t].pc \notin C9_BootPcs)
               => task'[t].pc = "lock_send"]_vars

\* an acquire has just succeeded although its lock request failed: the flag
\* is false, the increment is kept, the channel is still up
C9_Witness ==
    /\ lastOp.op = "acquire_done"
    /\ lastOp.outcome = "lock_failed"
    /\ ~master_lock_acquired
    /\ connected
    /\ \E d \in Devices : refs[d] = 1

\* C10: whenever the lock request is sent, the three bootstrap commands have
\* completed, in their order, on the connection that is up.
C10_BootstrapBeforeLock ==
    [][\A t \in Tasks :
          (task[t].pc = "lock_send" /\ task'[t].pc = "lock_await")
              => connBoot' = Len(BootstrapCommands)]_vars

\* the two answers the claim names: a direct acknowledgement with code OK, a
\* host/slave-mode notification with mode = 0 and lock = true
C11_GrantingAnswer(f) ==
    /\ f.state = "result"
    /\ \/ f.cls = ComResponse /\ f.data.f1 = 0
       \/ f.cls = ResNotifyHostSlaveMode /\ f.data.f1 = 0 /\ f.data.f2 = TRUE

\* C11: the master-lock flag goes from false to true only in the step that
\* evaluates a granting answer to the lock request, and the step that
\* evaluates any other answer ends with the flag false.
C11_FlagSetOnlyByGrant ==
    [][/\ (~master_lock_acquired /\ master_lock_acquired')
            => \E t \in Tasks : /\ task[t].pc = "lock_await"
                                /\ task'[t].pc # "lock_await"
                                /\ C11_GrantingAnswer(future[t])
       /\ \A t \in Tasks :
            (/\ task[t].pc = "lock_await" /\ task'[t].pc # "lock_await"
             /\ ~C11_GrantingAnswer(future[t]))
                => ~master_lock_acquired']_vars

\* the lock request was answered by a notification of another mode with
\* lock = true, and the flag is false when _ensure_master_lock returns
C11_Witness ==
    \E t \in Tasks :
        /\ task[t].pc = "ews_return"
        /\ task[t].lock_try = "notify"
        /\ ~master_lock_acquired
        /\ connected

\* C12: every step that brings the command channel up leaves the master-lock
\* flag and the bootstrap flag false, whichever code path made the
\* connection.
C12_ReconnectResetsFlags ==
    [][(~connected /\ connected')
          => (~master_lock_acquired' /\ ~ws_bootstrapped')]_vars

(* ========================= Claims on the camera ======================== *)

\* C13: after the command channel has been reconnected, the cached capability
\* metadata (params config, exposure resolver, filter options) is cleared: a
\* step that takes the channel from down to up while metadata of the previous
\* connection is cached leaves the three caches empty.
C13_ReconnectClearsCaches ==
    [][(~connected /\ connected' /\ caches # NoCaches) => caches' = NoCaches]_vars

\* C14 as stated: shutdown sends exactly one master-lock release request if
\* and only if the lock was held, and ends with the master-lock flag false, the
\* bootstrap flag false and every reference count zero.
C14_OneUnlockIffHeld ==
    [][lastOp'.op = "shutdown_done" =>
          /\ (lastOp'.type = 1) <=> (lastOp'.outcome # "not_held")
          /\ lastOp'.type \in {0, 1}
          /\ ~master_lock_acquired' /\ ~ws_bootstrapped' /\ refs' = NoRefs]_vars

\* C14, amended: shutdown cancels an in-flight retrieval task and a live
\* temperature task and goes on to the release only when they have ended;
\* it sends exactly one release request if and only if the lock was held and
\* the channel was up or could be brought up and the request could be sent
\* (none when the reconnect or the send fails); then it closes the channel and
\* ends with both flags false and every reference count zero.
C14_ShutdownReleases ==
    [][/\ \A t \in Tasks :
            /\ (ccall[t].pc = "idle" /\ ccall'[t].op = "shutdown") =>
                   LET k == camera_state.capture_task IN
                      IF ~Done(capture, k)
                      THEN capture'[k].cancel /\ ccall'[t].pc = "sd_wait_capture"
                      ELSE temperature_task = "live" => temperature_task' = "cancelling"
            /\ (ccall[t].pc = "sd_wait_capture" /\ ccall'[t].pc # "sd_wait_capture") =>
                   /\ Done(capture, ccall[t].wait)
                   /\ camera_state'.capture_task = NoTask
                   /\ temperature_task = "live" => temperature_task' = "cancelling"
            /\ (ccall[t].pc # "sd_release" /\ ccall'[t].pc = "sd_release") =>
                   temperature_task' = "none"
            /\ (ccall[t].pc = "sd_release" /\ ccall'[t].pc = "sd_close") =>
                   ~master_lock_acquired'
            /\ (ccall[t].pc = "sd_close" /\ ccall'[t].pc = "sd_finish") => ~connected'
       /\ lastOp'.op = "shutdown_done" =>
            /\ (lastOp'.type = 1) <=> (lastOp'.outcome = "held")
            /\ lastOp'.type \in {0, 1}
            /\ ~master_lock_acquired' /\ ~ws_bootstrapped' /\ refs' = NoRefs]_vars

\* C14: a shutdown has ended that found the lock held and the channel down,
\* reconnected and sent one release request, after a retrieval task it had to
\* cancel and the temperature task
C14_Witness ==
    /\ lastOp.op = "shutdown_done"
    /\ lastOp.outcome = "held" /\ lastOp.key = "down" /\ lastOp.type = 1
    /\ \E k \in CaptureIds : capture[k].status = "done"
    /\ temperature_task = "none"
    /\ ~connected /\ ~master_lock_acquired /\ refs = NoRefs

\* C15 as stated: camera_start_exposure called while the camera is not
\* connected or with duration <= 0 is rejected: no call runs on (so no device
\* command is sent and no retrieval task spawned), no retrieval task is
\* cancelled and the camera state is unchanged.
C15_StartRejected ==
    [][(lastOp'.op = "start_exposure"
          /\ (~camera_state.connected \/ lastOp'.type <= 0)) =>
            /\ lastOp'.outcome = "rejected"
            /\ UNCHANGED <<camera_state, capture, ccall>>]_vars

\* C15, amended: the check is made by the start-exposure endpoint of the
\* router, on the router's connected flag.  A request through the endpoint is
\* rejected if and only if that flag is false or duration <= 0, and a rejected
\* request starts no call (no device command, no retrieval task), cancels no
\* retrieval task and leaves the camera state and the channel as they were.
C15_EndpointRejects ==
    [][(lastOp'.op = "start_exposure" /\ lastOp'.key = "endpoint") =>
          /\ (lastOp'.outcome = "rejected") <=> (~router_connected \/ lastOp'.type <= 0)
          /\ lastOp'.outcome = "rejected" =>
                UNCHANGED <<camera_state, capture, ccall, caches, connected,
                            master_lock_acquired, temperature_task>>]_vars

\* C15: the endpoint has just rejected a request while a retrieval task of an
\* earlier exposure is live
C15_Witness ==
    /\ lastOp.op = "start_exposure" /\ lastOp.key = "endpoint"
    /\ lastOp.outcome = "rejected"
    /\ \E k \in CaptureIds : Live(capture, k)
    /\ camera_state.start_time # 0

\* C16: for a light frame whose dark library the device reports missing: with
\* continue_without_darks the start-capture command is still sent and, after a
\* successful start, last_error is "dark_missing"; without it the call fails
\* at the dark check, so no start-capture command is sent and no retrieval
\* task spawned.
C16_DarkMissing ==
    [][\A t \in Tasks :
          /\ (ccall[t].pc = "cs_start" /\ ccall'[t].pc = "idle"
                 /\ ccall[t].light /\ ccall[t].cwd
                 /\ ccall[t].dark = "CODE_ASTRO_DARK_NOT_FOUND"
                 /\ StartAnswer(lastOp'.outcome).started) =>
                camera_state'.last_error = "dark_missing"
          /\ (ccall[t].pc = "cs_dark" /\ ccall'[t].pc # "cs_dark"
                 /\ lastOp'.outcome = "CODE_ASTRO_DARK_NOT_FOUND") =>
                IF ccall[t].cwd
                THEN ccall'[t].pc = "cs_configure"
                ELSE /\ ccall'[t].pc = "idle"
                     /\ capture' = capture
                     /\ camera_state'.capture_task = camera_state.capture_task]_vars

\* C17: in every camera_start_exposure that sends the start-capture command,
\* both pending baselines are set from the device's latest entry queried in
\* that call, before the command is sent: the baseline step leaves the
\* file-transfer baseline at the device's latest file and the album baseline
\* at the device's latest album entry, and the file-transfer baseline is still
\* the queried one when the command goes out.
C17_BaselinesFromDevice ==
    [][\A t \in Tasks :
          /\ (ccall[t].pc = "cs_baseline" /\ ccall'[t].pc = "cs_start") =>
                /\ camera_state'.pending_ftp_baseline = device.ftp
                /\ camera_state'.pending_album_baseline = device.album
          /\ (ccall[t].pc = "cs_start" /\ ccall'[t].pc = "idle") =>
                camera_state.pending_ftp_baseline = ccall[t].q_ftp]_vars

\* C18: a start-capture command answered busy makes camera_start_exposure
\* raise a command error that carries the busy code, with last_error
\* "astro_busy" and no retrieval task spawned; answered needs-goto, the call
\* returns normally with last_error None and a new retrieval task, exactly as
\* for an OK answer.
C18_BusyAndNeedsGoto ==
    [][lastOp'.op = "start_capture" =>
          /\ lastOp'.outcome = "CODE_ASTRO_FUNCTION_BUSY" =>
                /\ lastOp'.raising = {<<"DwarfCommandError", "CODE_ASTRO_FUNCTION_BUSY">>}
                /\ camera_state'.last_error = "astro_busy"
                /\ capture' = capture
                /\ camera_state'.capture_task = camera_state.capture_task
          /\ lastOp'.outcome \in {"CODE_ASTRO_NEED_GOTO", "OK"} =>
                /\ lastOp'.raising = {}
                /\ camera_state'.last_error = None
                /\ LET k == camera_state'.capture_task IN
                      /\ k # NoTask
                      /\ capture[k].status = "none"
                      /\ capture'[k] = [NoCapture EXCEPT !.status = "running",
                                                         !.pc = "fc_sleep"]
                      /\ \A j \in CaptureIds \ {k} : capture'[j] = capture[j]]_vars

\* C18: a start-capture command has just been answered busy, while the
\* retrieval task of an earlier exposure (answered needs-goto or OK) exists
C18_Witness ==
    /\ lastOp.op = "start_capture"
    /\ lastOp.outcome = "CODE_ASTRO_FUNCTION_BUSY"
    /\ camera_state.last_error = "astro_busy"
    /\ \E k \in CaptureIds : capture[k].status # "none"

\* C19: under any interleaving of camera_start_exposure, camera_abort_exposure
\* and camera_disconnect calls, two overlapping start calls included, at most
\* one retrieval task that has not been cancelled is live at any time.
C19_OneLiveRetrieval ==
    Cardinality({k \in CaptureIds : Live(capture, k)}) <= 1

\* C20 as stated: a retrieval task that finds no new artifact on the
\* file-transfer channel within its timeout and then none on the album channel
\* ends with image null and last_error "timeout".
C20_TimeoutTag ==
    [][(lastOp'.op = "fetch_album" /\ lastOp'.key = "timeout"
          /\ lastOp'.outcome = "timeout") =>
            /\ camera_state'.image = None
            /\ camera_state'.last_error = "timeout"]_vars

\* C20, amended: such a task ends with last_error "album_timeout" and
\* start_time cleared, and stores no image: image stays as it was, which is
\* null when no other retrieval task has been spawned.
C20_AlbumTimeoutTag ==
    [][\A k \in CaptureIds :
          (capture[k].pc = "fc_album" /\ capture[k].ftp = "timeout"
             /\ lastOp'.op = "fetch_album" /\ lastOp'.outcome = "timeout"
             /\ capture'[k] # capture[k]) =>
               /\ camera_state'.last_error = "album_timeout"
               /\ camera_state'.start_time = 0
               /\ camera_state'.image = camera_state.image
               /\ camera_state'.image = None => capture'[k].status = "done"
               /\ (\A j \in CaptureIds \ {k} : capture[j].status = "none") =>
                     camera_state'.image = None]_vars

\* C20: a retrieval task has just ended after both attempts timed out
C20_Witness ==
    /\ lastOp.op = "fetch_album" /\ lastOp.key = "timeout" /\ lastOp.outcome = "timeout"
    /\ camera_state.last_error = "album_timeout"
    /\ camera_state.image = None
    /\ \E k \in CaptureIds : capture[k].status = "done" /\ capture[k].ftp = "timeout"

\* C21: camera_abort_exposure cancels an in-flight retrieval task and goes on
\* only when that task has ended; it then leaves capture_task None, image
\* None, start_time None and last_error "aborted", issues the stop-capture
\* command if and only if the capture mode is astro, and changes nothing of the
\* camera state afterwards up to its return; a retrieval task that has been
\* cancelled makes no change to the camera state.
C21_AbortResets ==
    [][/\ \A t \in Tasks :
            /\ (ccall[t].pc = "idle" /\ ccall'[t].op = "abort"
                   /\ ~Done(capture, camera_state.capture_task)) =>
                  /\ capture'[camera_state.capture_task].cancel
                  /\ ccall'[t].pc = "ab_wait"
                  /\ ccall'[t].wait = camera_state.capture_task
            /\ (ccall[t].pc = "ab_wait" /\ ccall'[t].pc # "ab_wait") =>
                  Done(capture, ccall[t].wait)
            /\ (ccall[t].pc \in {"idle", "ab_wait"}
                   /\ (\/ ccall'[t].pc = "ab_stop"
                       \/ lastOp'.op = "abort_done" /\ lastOp'.caller = t)) =>
                  /\ camera_state'.capture_task = NoTask
                  /\ camera_state'.image = None
                  /\ camera_state'.start_time = 0
                  /\ camera_state'.last_error = "aborted"
                  /\ (ccall'[t].pc = "ab_stop") <=> (camera_state.capture_mode = "astro")
            /\ (ccall[t].pc = "ab_stop" /\ ccall'[t].pc # "ab_stop") =>
                  /\ lastOp'.op = "abort_done" /\ lastOp'.outcome = "stop_sent"
                  /\ camera_state' = camera_state
       /\ \A k \in CaptureIds :
            ((capture[k].cancel \/ capture[k].unwinding \/ capture[k].status = "done")
               /\ capture'[k] # capture[k]) => camera_state' = camera_state]_vars

\* C21: an abort has returned after the stop-capture command, having cancelled
\* a retrieval task in the middle of its file-transfer attempt; the state is
\* the aborted one
C21_Witness ==
    /\ lastOp.op = "abort_done" /\ lastOp.outcome = "stop_sent"
    /\ \E k \in CaptureIds : capture[k].status = "done" /\ capture[k].unwinding
    /\ camera_state.capture_task = NoTask /\ camera_state.image = None
    /\ camera_state.start_time = 0 /\ camera_state.last_error = "aborted"

\* the step in which the camera_start_exposure of call t raises: the dark
\* check fails and darks are required, or the start-capture command is
\* answered with an error or not at all
StartRaises(t) ==
    /\ ccall[t].op = "start"
    /\ ccall[t].pc \in {"cs_dark", "cs_start"}
    /\ ccall'[t].pc = "idle"
    /\ ccall[t].pc = "cs_start" => lastOp'.raising # {}

(* C38: whenever camera_start_exposure raises, then afterwards start_time is
   None and no retrieval task is live, so that the camera is not reported as
   exposing or reading out for an exposure that never started. *)
C38_RaisedStartNotExposing ==
    [][\A t \in DOMAIN ccall :
          StartRaises(t) =>
              /\ camera_state'.start_time = 0
              /\ ~Live(capture', camera_state'.capture_task)]_vars

\* the step in which retrieval task k ends without having been cancelled
FinishesUncancelled(k) ==
    /\ capture[k].status = "running"
    /\ capture'[k].status = "done"
    /\ ~capture[k].cancel
    /\ ~capture[k].unwinding

\* a frame is stored and there is no error tag, or there is no frame and an
\* error tag says why
FrameOrTag(cs) ==
    /\ cs.start_time = 0
    /\ \/ cs.image # None /\ cs.last_error = None
       \/ cs.image = None /\ cs.last_error \notin {None, ""}

(* C39: whenever a retrieval task finishes without having been cancelled,
   start_time is None and exactly one of the following holds: a frame is
   stored and last_error is None, or image is None and last_error is a
   non-empty error tag. *)
C39_FinishedRetrievalFrameOrTag ==
    [][\A k \in CaptureIds : FinishesUncancelled(k) => FrameOrTag(camera_state')]_vars

(* C39 amended: the same, as long as no two camera_start_exposure calls
   have been in progress at the same time. *)
C39_FrameOrTagUnlessStartsOverlap ==
    [][\A k \in CaptureIds :
          (FinishesUncancelled(k) /\ ~overlapped) => FrameOrTag(camera_state')]_vars

\* a retrieval task has ended with a frame from the album after the
\* file-transfer attempt found nothing, and no start calls overlapped
C39_Witness ==
    /\ ~overlapped
    /\ lastOp.op = "camera"
    /\ \E k \in CaptureIds :
          /\ capture[k].status = "done"
          /\ capture[k].ftp = "timeout"
          /\ camera_state.capture_task = k
    /\ camera_state.image = "frame"
    /\ camera_state.last_error = None
    /\ camera_state.start_time = 0

\* a retrieval task has ended without a frame: the album download failed
C39_TagWitness ==
    /\ ~overlapped
    /\ lastOp.op = "fetch_album"
    /\ lastOp.outcome = "download_failed"
    /\ camera_state.image = None
    /\ camera_state.last_error = "album_download_failed"
    /\ camera_state.start_time = 0

(* ======================= Part 4: the focuser =========================== *)
(* focuser_move, session.py lines 2467-2590, with the session not in
   simulation.  One call runs at a time; position notifications
   (_handle_focus_notification, lines 282-305) and focuser_halt (lines
   2592-2606) come in between its steps.  A step of the call runs from one
   await to the next. *)

MaxStep == 20000            \* the upper clamp of the position, line 2472
SingleStepLimit == 10       \* line 2492: steps <= 10 go one by one
MaxMoves == 2               \* focuser_move calls of one run
MaxNotes == 2               \* position notifications of one run
FocStarts == {0, 3, 19995}              \* positions the runs start from
FocDeltas == {-11, -2, 0, 2, 11}        \* the delta argument
\* the target argument: absent, or one value
FocTargets == {<<>>, <<-4>>, <<5>>, <<20007>>}

FocQuiet == UNCHANGED <<baseVars, telescope, tcall, ble, ftp, exposure, settings, unreferenced,
                        overlapped>>

\* max(0, min(p, 20000)), lines 2472, 2520, 2584 and 298
ClampPosition(p) == IF p < 0 THEN 0 ELSE IF p > MaxStep THEN MaxStep ELSE p

\* line 2470: an explicit target overrides the delta
DesiredTarget(position, delta, target) ==
    IF target = <<>> THEN position + delta ELSE target[1]

\* a threshold that lets moves of eleven steps go one by one
PreferSingleStepEleven(steps) == steps <= SingleStepLimit + 1

\* line 2492
PreferSingleStep(steps) == steps <= SingleStepLimit

\* lines 2508 and 2533: request.direction = 1 if direction > 0 else 0
DirectionField(direction) == IF direction > 0 THEN 1 ELSE 0

\* lines 2526-2529 and 2558-2561
Arrived(direction, position, target) ==
    \/ direction > 0 /\ position >= target
    \/ direction < 0 /\ position <= target

FocCmd(name, direction) == [cmd |-> name, direction |-> direction]

\* a finish that leaves the position as the notifications left it
FinishMoveAsReported(f) ==
    [f EXCEPT !.position = ClampPosition(f.position),
              !.is_moving = FALSE, !.pc = "idle", !.result = "returned"]

\* the else branch of the try, lines 2580-2585
FinishMove(f) ==
    [f EXCEPT !.position = ClampPosition(IF ~f.received_update THEN f.target
                                         ELSE f.position),
              !.is_moving = FALSE, !.pc = "idle", !.result = "returned"]

\* the except branch, lines 2577-2579
RaiseMove(f) == [f EXCEPT !.is_moving = FALSE, !.pc = "idle", !.result = "raised"]

\* lines 2467-2488: up to the return for a zero delta or the await of _ensure_ws
FocMove(delta, tgt) ==
    /\ focuser.pc = "idle"
    /\ focuser.moves < MaxMoves
    /\ LET desired == DesiredTarget(focuser.position, delta, tgt)
           target == ClampPosition(desired)
           d == target - focuser.position
           f == [focuser EXCEPT !.moves = @ + 1, !.is_moving = TRUE,
                                !.desired = desired, !.target = target,
                                !.direction = IF d > 0 THEN 1 ELSE -1,
                                !.steps = IF d > 0 THEN d ELSE -d,
                                !.i = 0, !.received_update = FALSE,
                                !.cmds = <<>>, !.waitEnd = "-",
                                !.notified = FALSE, !.result = "-"]
       IN focuser' = IF d = 0
                     THEN [f EXCEPT !.is_moving = FALSE, !.direction = 0,
                                    !.result = "returned"]
                     ELSE [f EXCEPT !.pc = "ensure_ws"]
    /\ FocQuiet

\* line 2488: _ensure_ws is awaited outside the try
FocEnsureWs(ok) ==
    /\ focuser.pc = "ensure_ws"
    /\ focuser' = IF ~ok THEN [focuser EXCEPT !.pc = "idle", !.result = "raised"]
                  ELSE [focuser EXCEPT !.pc = IF PreferSingleStep(focuser.steps)
                                              THEN "ss_send" ELSE "cont_start"]
    /\ FocQuiet

\* lines 2507-2515: the event is cleared and one single-step command is sent
FocSingleStep(ok) ==
    /\ focuser.pc = "ss_send"
    /\ LET f == [focuser EXCEPT !.event = FALSE,
                     !.cmds = Append(@, FocCmd("single_step",
                                               DirectionField(focuser.direction)))]
       IN focuser' = IF ok THEN [f EXCEPT !.pc = "ss_wait"] ELSE RaiseMove(f)
    /\ FocQuiet

\* lines 2516-2530 and 2580-2585: the wait of 0.8 s ends by the event or by the timeout, which
\* estimates one step; the loop ends on arrival or after steps rounds, and the
\* else branch follows without an await
FocSingleWait(timedOut) ==
    /\ focuser.pc = "ss_wait"
    /\ timedOut = ~focuser.event
    /\ LET f == [focuser EXCEPT
                    !.position = IF timedOut
                                 THEN ClampPosition(@ + focuser.direction) ELSE @,
                    !.received_update = TRUE, !.event = FALSE, !.i = @ + 1]
       IN focuser' = IF Arrived(f.direction, f.position, f.target) \/ f.i = f.steps
                     THEN FinishMove(f)
                     ELSE [f EXCEPT !.pc = "ss_send"]
    /\ FocQuiet

\* lines 2532-2539: the continuous drive is started
FocContStart(ok) ==
    /\ focuser.pc = "cont_start"
    /\ LET f == [focuser EXCEPT !.event = FALSE,
                     !.cmds = Append(@, FocCmd("start_continuous",
                                               DirectionField(focuser.direction)))]
       IN focuser' = IF ok THEN [f EXCEPT !.pc = "cont_wait"] ELSE RaiseMove(f)
    /\ FocQuiet

\* lines 2541-2561: a wait that ended by the event; the loop ends on arrival
FocContWake ==
    /\ focuser.pc = "cont_wait"
    /\ focuser.event
    /\ LET f == [focuser EXCEPT !.received_update = TRUE, !.event = FALSE]
       IN focuser' = IF Arrived(f.direction, f.position, f.target)
                     THEN [f EXCEPT !.pc = "cont_stop", !.waitEnd = "arrived"]
                     ELSE f
    /\ FocQuiet

\* lines 2543-2544: the deadline of the wait has passed
FocContDeadline ==
    /\ focuser.pc = "cont_wait"
    /\ focuser' = [focuser EXCEPT !.pc = "cont_stop", !.waitEnd = "deadline"]
    /\ FocQuiet

\* lines 2563-2569: the drive is stopped
FocContStop(ok) ==
    /\ focuser.pc = "cont_stop"
    /\ LET f == [focuser EXCEPT !.event = FALSE,
                     !.cmds = Append(@, FocCmd("stop_continuous", -1))]
       IN focuser' = IF ok THEN [f EXCEPT !.pc = "stop_wait"] ELSE RaiseMove(f)
    /\ FocQuiet

\* lines 2570-2585: the last wait of 0.8 s and the else branch
FocStopWait(timedOut) ==
    /\ focuser.pc = "stop_wait"
    /\ timedOut = ~focuser.event
    /\ focuser' = FinishMove([focuser EXCEPT
                                 !.received_update = @ \/ ~timedOut,
                                 !.event = FALSE])
    /\ FocQuiet

\* _handle_focus_notification, lines 282-305
FocNotify(p) ==
    /\ focuser.notes < MaxNotes
    /\ focuser' = [focuser EXCEPT !.notes = @ + 1,
                                  !.position = ClampPosition(p),
                                  !.connected = TRUE, !.event = TRUE,
                                  !.notified = TRUE]
    /\ FocQuiet

\* positions the device reports: one step either way, the target, and one
\* beyond the range
NotePositions ==
    {focuser.position - 1, focuser.position + 1, focuser.target, MaxStep + 5}

\* focuser_halt, lines 2592-2606: is_moving is cleared whatever the command did
FocHalt ==
    /\ focuser.is_moving
    /\ focuser' = [focuser EXCEPT !.is_moving = FALSE]
    /\ FocQuiet

\* the task that runs focuser_move is cancelled while the call is suspended
\* in _ensure_ws or in a wait for a notification: CancelledError is no
\* Exception, so the except branch of line 2577 does not run and the else
\* branch is skipped
FocCancel ==
    /\ focuser.pc \in {"ensure_ws", "ss_wait", "cont_wait", "stop_wait"}
    /\ focuser' = [focuser EXCEPT !.pc = "idle", !.result = "cancelled",
                                  !.event = IF focuser.pc \in {"ss_wait", "stop_wait"}
                                            THEN FALSE ELSE @]
    /\ FocQuiet

InitFocuser ==
    /\ InitChannelAndSession
    /\ focuser \in {[IdleFocuser EXCEPT !.position = p] : p \in FocStarts}
    /\ telescope = IdleTelescope
    /\ tcall = [t \in Tasks |-> IdleTelCall]
    /\ ble = IdleBle
    /\ ftp = IdleFtp
    /\ exposure = NoResolver
    /\ settings = NoSettings
    /\ unreferenced = FALSE
    /\ overlapped = FALSE

NextFocuser ==
    \/ \E delta \in FocDeltas, tgt \in FocTargets : FocMove(delta, tgt)
    \/ \E ok \in BOOLEAN : FocEnsureWs(ok)
    \/ \E ok \in BOOLEAN : FocSingleStep(ok)
    \/ \E timedOut \in BOOLEAN : FocSingleWait(timedOut)
    \/ \E ok \in BOOLEAN : FocContStart(ok)
    \/ FocContWake
    \/ FocContDeadline
    \/ \E ok \in BOOLEAN : FocContStop(ok)
    \/ \E timedOut \in BOOLEAN : FocStopWait(timedOut)
    \/ \E p \in NotePositions : FocNotify(p)
    \/ FocHalt
    \/ FocCancel

SpecFocuser == InitFocuser /\ [][NextFocuser]_vars

(* ======================= Claims on the focuser ========================= *)

CmdNames(cmds) == [n \in DOMAIN cmds |-> cmds[n].cmd]

\* C22: a focuser_move that returned, and during which no position
\* notification was handled, has left the position at the requested absolute
\* target clamped to [0, 20000], on the single-step path and on the
\* continuous path alike
C22_ConvergesWithoutNotifications ==
    (focuser.pc = "idle" /\ focuser.result = "returned" /\ ~focuser.notified) =>
        focuser.position = ClampPosition(focuser.desired)

\* C22: a move of more than ten steps has returned on the continuous path, no
\* notification was handled, and the position is a target that had to be
\* clamped
C22_Witness ==
    /\ focuser.pc = "idle" /\ focuser.result = "returned" /\ ~focuser.notified
    /\ focuser.steps > SingleStepLimit
    /\ focuser.desired > MaxStep
    /\ focuser.position = MaxStep
    /\ Len(focuser.cmds) = 2

\* C22: the same on the single-step path, where every wait timed out
C22_SingleStepWitness ==
    /\ focuser.pc = "idle" /\ focuser.result = "returned" /\ ~focuser.notified
    /\ focuser.steps = 2 /\ focuser.i = 2
    /\ focuser.position = focuser.target

\* C23: a focuser_move of more than ten steps issues no single-step command and
\* never more than one start followed by one stop; once its start command is
\* acknowledged it issues the stop, whether the wait ended by an arrival or by
\* the deadline, and a call that returned has issued exactly the start and then
\* the stop
C23_OneStartOneStop ==
    (focuser.steps > SingleStepLimit) =>
        /\ CmdNames(focuser.cmds) \in
              {<<>>, <<"start_continuous">>, <<"start_continuous", "stop_continuous">>}
        /\ focuser.pc = "cont_stop" =>
              /\ focuser.waitEnd \in {"arrived", "deadline"}
              /\ CmdNames(focuser.cmds) = <<"start_continuous">>
        /\ (focuser.pc \in {"stop_wait", "idle"} /\ focuser.waitEnd # "-") =>
              CmdNames(focuser.cmds) = <<"start_continuous", "stop_continuous">>
        /\ (focuser.pc = "idle" /\ focuser.result = "returned") =>
              /\ focuser.waitEnd \in {"arrived", "deadline"}
              /\ CmdNames(focuser.cmds) = <<"start_continuous", "stop_continuous">>

\* C23: a continuous move has returned after a wait that ended by the arrival a
\* notification reported
C23_Witness ==
    /\ focuser.pc = "idle" /\ focuser.result = "returned"
    /\ focuser.steps > SingleStepLimit
    /\ focuser.waitEnd = "arrived"
    /\ CmdNames(focuser.cmds) = <<"start_continuous", "stop_continuous">>

\* C23: the same after a wait that ended by the deadline
C23_DeadlineWitness ==
    /\ focuser.pc = "idle" /\ focuser.result = "returned"
    /\ focuser.steps > SingleStepLimit
    /\ focuser.waitEnd = "deadline"
    /\ CmdNames(focuser.cmds) = <<"start_continuous", "stop_continuous">>

\* C24: every single-step or start command of a move towards larger positions
\* carries direction 0, and every such command of a move towards smaller
\* positions carries direction 1
C24_DirectionFarNear ==
    \A n \in DOMAIN focuser.cmds :
        focuser.cmds[n].cmd \in {"single_step", "start_continuous"} =>
            focuser.cmds[n].direction = IF focuser.direction > 0 THEN 0 ELSE 1

\* the call has just issued a command
Issued == Len(focuser'.cmds) = Len(focuser.cmds) + 1

\* a call of one to ten steps issues only single-step commands, at most as
\* many as its steps, all with the direction of the first
OnlySingleSteps ==
    (focuser.steps >= 1 /\ focuser.steps <= SingleStepLimit) =>
        /\ Len(focuser.cmds) <= focuser.steps
        /\ \A n \in DOMAIN focuser.cmds :
              /\ focuser.cmds[n].cmd = "single_step"
              /\ focuser.cmds[n].direction = focuser.cmds[1].direction

\* C32: a focuser_move of one to ten steps issues only single-step commands,
\* at most as many as its steps and all in the same direction, no command of
\* the continuous drive, and no step when the position has already reached or
\* crossed the target
C32_SingleStepsUntilTarget ==
    [][(Issued /\ focuser.steps >= 1 /\ focuser.steps <= SingleStepLimit) =>
          /\ OnlySingleSteps'
          /\ ~Arrived(focuser.direction, focuser.position, focuser.target)]_vars

\* three single steps of a move of three steps have been issued
C32_ThreeStepsWitness ==
    /\ focuser.steps = 3
    /\ CmdNames(focuser.cmds) = <<"single_step", "single_step", "single_step">>

\* no focuser_move call is in progress
NoMoveInProgress == focuser.pc = "idle"

\* a call that returned normally has cleared is_moving
ReturnedNotMoving ==
    (NoMoveInProgress /\ focuser.result = "returned") => ~focuser.is_moving

\* C40: is_moving is false whenever no focuser_move call is in progress,
\* whether the last call returned, failed or was cancelled
C40_NotMovingWhenIdle == NoMoveInProgress => ~focuser.is_moving

(* ======================= Part 5: the telescope ========================= *)
(* telescope_move_axis, telescope_stop_axis, _send_manual_vector,
   _send_joystick_stop, _halt_manual_motion, telescope_slew_to_coordinates,
   _start_goto_command and telescope_abort_slew, session.py lines 762-969,
   with the session not in simulation.  The callers run concurrently; a step
   of a call runs from one suspension (a command awaiting its answer, or the
   sleep before the retry) to the next.  Rates are counted in units of 1e-7. *)

MaxTelOps == 2                      \* calls on the telescope of one run
MAX_JOYSTICK_SPEED == 300000000     \* line 56: 30.0
RateEps == 10                       \* lines 797, 825 and 841: 1e-6
CODE_ASTRO_FUNCTION_BUSY == -11501  \* line 778
CODE_OTHER == -1                    \* some other error code of the device
\* the axis and rate arguments: a wrong axis; no rate, a rate below 1e-6, and
\* -40.0, which is clamped
TelAxes == {0, 1, 2}
TelRates == {0, 5, -400000000}

TelQuiet == UNCHANGED <<baseVars, focuser, ble, ftp, exposure, settings, unreferenced,
                        overlapped>>

Abs(x) == IF x < 0 THEN -x ELSE x

\* line 796
ClampRate(rate) ==
    IF rate > MAX_JOYSTICK_SPEED THEN MAX_JOYSTICK_SPEED
    ELSE IF rate < -MAX_JOYSTICK_SPEED THEN -MAX_JOYSTICK_SPEED ELSE rate

\* line 797
ManualMotion(rate) == Abs(rate) >= RateEps

\* line 167: _axis_direction_polarity, never reassigned
Polarity == [a \in Axes |-> 1]

\* lines 839-841: math.hypot(rate_x, rate_y) < 1e-6
MagnitudeBelowEps(rate_x, rate_y) ==
    IF Abs(rate_x) >= RateEps \/ Abs(rate_y) >= RateEps THEN FALSE
    ELSE rate_x * rate_x + rate_y * rate_y < RateEps * RateEps

\* a vector that is driven whatever its magnitude
SendManualVectorAlwaysDrives(tel) == "joystick"

\* _send_manual_vector, lines 836-845: the command it decides on
SendManualVector(tel) ==
    LET rate_x == tel.rates[0] * Polarity[0]
        rate_y == tel.rates[1] * Polarity[1]
    IN IF MagnitudeBelowEps(rate_x, rate_y)
       THEN IF tel.joystick_active THEN "joystick_stop" ELSE "none"
       ELSE "joystick"

\* the answers to a command: OK, busy, another error code, no answer in time
Answers == {[timeout |-> FALSE, code |-> OK],
            [timeout |-> FALSE, code |-> CODE_ASTRO_FUNCTION_BUSY],
            [timeout |-> FALSE, code |-> CODE_OTHER],
            [timeout |-> TRUE, code |-> OK]}
AnswerOk(answer) == ~answer.timeout /\ answer.code = OK

\* a retry after any DwarfCommandError
IsBusyAnyCode(answer) == ~answer.timeout

\* line 778: a DwarfCommandError with the busy code
IsBusy(answer) == ~answer.timeout /\ answer.code = CODE_ASTRO_FUNCTION_BUSY

\* the parts a call is made of
Item(op) == [op |-> op, axis |-> 0, rate |-> 0, suppress |-> FALSE, attempt |-> 0]
StopAxisItem(axis, suppress) == [Item("stop_axis") EXCEPT !.axis = axis,
                                                          !.suppress = suppress]
GotoItem(attempt) == [Item("goto") EXCEPT !.attempt = attempt]

\* _halt_manual_motion, lines 901-907
HaltManualMotion ==
    <<Item("ensure_ws"), StopAxisItem(0, TRUE), StopAxisItem(1, TRUE), Item("halted")>>

\* telescope_abort_slew, lines 955-969
AbortSlew ==
    <<Item("clear_goto"), Item("ensure_ws"), Item("stop_goto"),
      StopAxisItem(0, TRUE), StopAxisItem(1, TRUE)>>

\* telescope_slew_to_coordinates, lines 773-776
SlewToCoordinates == <<Item("ensure_ws")>> \o HaltManualMotion \o <<GotoItem(1)>>

\* a retry that sends the second goto at once
RetryAfterBusyAtOnce == <<GotoItem(2)>>

\* lines 786-789: what follows a busy answer to the first goto
RetryAfterBusy ==
    AbortSlew \o <<Item("sleep")>> \o HaltManualMotion \o <<GotoItem(2)>>

\* telescope_stop_axis, lines 816-824, called by a client
StopAxis(axis) ==
    IF axis \notin Axes THEN <<Item("value_error")>>
    ELSE <<Item("ensure_ws"), StopAxisItem(axis, FALSE)>>

\* telescope_move_axis, lines 792-814
MoveAxis(axis, rate) ==
    IF axis \notin Axes THEN <<Item("value_error")>>
    ELSE IF ~ManualMotion(ClampRate(rate)) THEN StopAxis(axis)
    ELSE <<Item("ensure_ws"),
           [Item("set_rate") EXCEPT !.axis = axis, !.rate = ClampRate(rate)],
           Item("vector")>>

LogEntry(cmd, tel) ==
    [cmd |-> cmd, rate_x |-> tel.rates[0], rate_y |-> tel.rates[1],
     active |-> tel.joystick_active, answered |-> FALSE, timeout |-> FALSE,
     code |-> OK]

RaiseTel(c) ==
    [c EXCEPT !.todo = <<>>, !.inflight = NoCommand, !.pc = "idle", !.result = "raised"]

\* the call c runs on the state tel up to its next suspension or its end.  A
\* stop_axis returns at once when its axis has no rate and the joystick is not
\* active (line 825), and otherwise clears the rate and evaluates the vector
\* (lines 828-834); a vector that decides on no command lets the call run on
RECURSIVE Run(_, _, _)
Run(tel, c, wsok) ==
    IF c.todo = <<>>
    THEN [tel |-> tel, call |-> [c EXCEPT !.pc = "idle", !.result = "returned"]]
    ELSE
    LET item == Head(c.todo)
        rest == [c EXCEPT !.todo = Tail(c.todo)]
        Suspend(cmd, t2) ==
            [tel |-> t2,
             call |-> [rest EXCEPT !.pc = "await",
                                   !.log = Append(@, LogEntry(cmd, t2)),
                                   !.inflight = [cmd |-> cmd, suppress |-> item.suppress,
                                                 attempt |-> item.attempt]]]
        Vector(t2) ==
            IF SendManualVector(t2) = "none"
            THEN Run(t2, [rest EXCEPT !.log = Append(@, LogEntry("none", t2))], wsok)
            ELSE Suspend(SendManualVector(t2), t2)
    IN CASE item.op = "value_error" -> [tel |-> tel, call |-> RaiseTel(c)]
         [] item.op = "ensure_ws" ->
               IF wsok THEN Run(tel, rest, wsok) ELSE [tel |-> tel, call |-> RaiseTel(c)]
         [] item.op = "clear_goto" -> Run([tel EXCEPT !.last_goto = FALSE], rest, wsok)
         [] item.op = "set_rate" ->
               Run([tel EXCEPT !.rates[item.axis] = item.rate], rest, wsok)
         [] item.op = "vector" -> Vector(tel)
         [] item.op = "stop_axis" ->
               IF ~ManualMotion(tel.rates[item.axis]) /\ ~tel.joystick_active
               THEN Run(tel, rest, wsok)
               ELSE Vector([tel EXCEPT !.rates[item.axis] = 0])
         [] item.op = "halted" ->
               Run(tel, [rest EXCEPT !.log = Append(@, LogEntry("halted", tel))], wsok)
         [] item.op = "sleep" ->
               [tel |-> tel,
                call |-> [rest EXCEPT !.pc = "await",
                                      !.inflight = [NoCommand EXCEPT !.cmd = "sleep"]]]
         [] OTHER -> Suspend(item.op, tel)

\* what an OK answer to a command changes: lines 874, 898 and 953
Acknowledged(tel, cmd) ==
    CASE cmd = "joystick" -> [tel EXCEPT !.joystick_active = TRUE]
      [] cmd = "joystick_stop" -> [tel EXCEPT !.joystick_active = FALSE]
      [] cmd = "goto" -> [tel EXCEPT !.last_goto = TRUE]
      [] OTHER -> tel

\* callers are interchangeable: the first free one makes the next call
TelStart(t, op, program, wsok) ==
    /\ tcall[t].pc = "idle"
    /\ \A u \in Tasks : u < t => tcall[u].pc # "idle"
    /\ telescope.ops < MaxTelOps
    /\ LET r == Run([telescope EXCEPT !.ops = @ + 1],
                    [IdleTelCall EXCEPT !.op = op, !.todo = program], wsok)
       IN /\ telescope' = r.tel
          /\ tcall' = [tcall EXCEPT ![t] = r.call]
    /\ TelQuiet

TelescopeMoveAxis(t, axis, rate, wsok) ==
    TelStart(t, "move_axis", MoveAxis(axis, rate), wsok)

TelescopeStopAxis(t, axis, wsok) ==
    TelStart(t, "stop_axis", StopAxis(axis), wsok)

TelescopeSlewToCoordinates(t, wsok) ==
    TelStart(t, "slew", SlewToCoordinates, wsok)

TelescopeAbortSlew(t, wsok) ==
    TelStart(t, "abort_slew", AbortSlew, wsok)

\* the sleep of 0.2 s before the retry is over, line 788
TelWake(t, wsok) ==
    /\ tcall[t].pc = "await"
    /\ tcall[t].inflight.cmd = "sleep"
    /\ LET r == Run(telescope, [tcall[t] EXCEPT !.inflight = NoCommand], wsok)
       IN /\ telescope' = r.tel
          /\ tcall' = [tcall EXCEPT ![t] = r.call]
    /\ TelQuiet

\* _send_and_check returns or raises: an error inside contextlib.suppress is
\* dropped (lines 905-907, 967-969); a busy answer to the first goto starts
\* the retry (lines 777-789); any other error ends the call
TelAnswer(t, answer, wsok) ==
    /\ tcall[t].pc = "await"
    /\ tcall[t].inflight.cmd \notin {"none", "sleep"}
    /\ LET c == tcall[t]
           cmd == c.inflight.cmd
           n == Len(c.log)
           c1 == [c EXCEPT !.inflight = NoCommand,
                           !.log[n].answered = TRUE,
                           !.log[n].timeout = answer.timeout,
                           !.log[n].code = answer.code]
           r == IF AnswerOk(answer) THEN Run(Acknowledged(telescope, cmd), c1, wsok)
                ELSE IF c.inflight.suppress THEN Run(telescope, c1, wsok)
                ELSE IF cmd = "goto" /\ c.inflight.attempt = 1 /\ IsBusy(answer)
                THEN Run(telescope, [c1 EXCEPT !.todo = RetryAfterBusy], wsok)
                ELSE [tel |-> telescope, call |-> RaiseTel(c1)]
       IN /\ telescope' = r.tel
          /\ tcall' = [tcall EXCEPT ![t] = r.call]
    /\ TelQuiet

InitTelescope ==
    /\ InitChannelAndSession
    /\ InitDevVars

NextTelescope ==
    \/ \E t \in Tasks, axis \in TelAxes, rate \in TelRates, wsok \in BOOLEAN :
          TelescopeMoveAxis(t, axis, rate, wsok)
    \/ \E t \in Tasks, axis \in TelAxes, wsok \in BOOLEAN : TelescopeStopAxis(t, axis, wsok)
    \/ \E t \in Tasks, wsok \in BOOLEAN : TelescopeSlewToCoordinates(t, wsok)
    \/ \E t \in Tasks, wsok \in BOOLEAN : TelescopeAbortSlew(t, wsok)
    \/ \E t \in Tasks, wsok \in BOOLEAN : TelWake(t, wsok)
    \/ \E t \in Tasks, answer \in Answers, wsok \in BOOLEAN : TelAnswer(t, answer, wsok)

SpecTelescope == InitTelescope /\ [][NextTelescope]_vars

(* ======================= Claims on the telescope ======================= *)

\* the evaluations of _send_manual_vector a call has logged
IsVectorEntry(e) == e.cmd \in {"joystick", "joystick_stop", "none"}

\* the combined magnitude of the polarity-adjusted rates of an entry is zero
ZeroMagnitude(e) == e.rate_x * Polarity[0] = 0 /\ e.rate_y * Polarity[1] = 0

\* C25: whatever calls of telescope_move_axis and telescope_stop_axis were made,
\* an evaluation of the manual vector with a combined magnitude of zero sends a
\* joystick-stop if the joystick is active and no command if it is not; it
\* never sends a joystick drive command
C25_NoDriveAtZeroMagnitude ==
    \A t \in Tasks : \A n \in DOMAIN tcall[t].log :
        LET e == tcall[t].log[n]
        IN (IsVectorEntry(e) /\ ZeroMagnitude(e)) =>
              e.cmd = IF e.active THEN "joystick_stop" ELSE "none"

\* C25: a telescope_stop_axis call found the joystick active, cleared the last
\* rate, and sent the joystick-stop, which the device acknowledged
C25_Witness ==
    \E t \in Tasks :
        /\ tcall[t].op = "stop_axis" /\ tcall[t].result = "returned"
        /\ Len(tcall[t].log) = 1
        /\ tcall[t].log[1].cmd = "joystick_stop"
        /\ ZeroMagnitude(tcall[t].log[1]) /\ tcall[t].log[1].active
        /\ ~telescope.joystick_active

\* C25: a call evaluated the vector with no rate and an idle joystick and sent
\* nothing
C25_NothingSentWitness ==
    \E t \in Tasks : \E n \in DOMAIN tcall[t].log :
        /\ tcall[t].log[n].cmd = "none"
        /\ ZeroMagnitude(tcall[t].log[n]) /\ ~tcall[t].log[n].active

\* the gotos, the stop-gotos and the completed halts of a call, in order
SlewTrace(c) ==
    SelectSeq(c.log, LAMBDA e : e.cmd \in {"goto", "stop_goto", "halted"})
TraceNames(tr) == [n \in DOMAIN tr |-> tr[n].cmd]
Failed(e) == e.answered /\ (e.timeout \/ e.code # OK)
BusyAnswer(e) == e.answered /\ ~e.timeout /\ e.code = CODE_ASTRO_FUNCTION_BUSY
FullSlew == <<"halted", "goto", "stop_goto", "halted", "goto">>

\* C26: a telescope_slew_to_coordinates call sends at most two gotos; the
\* second one follows only a busy answer to the first, a stop-goto command and
\* a renewed halt of manual motion, in that order; a failure of the second, and
\* a failure of the first other than busy, end the call with that error and no
\* further command
C26_AtMostOneRetry ==
    \A t \in Tasks :
        LET c == tcall[t]
            tr == SlewTrace(c)
        IN c.op = "slew" =>
              /\ \E k \in 0 .. 5 : TraceNames(tr) = SubSeq(FullSlew, 1, k)
              /\ Len(tr) >= 3 => BusyAnswer(tr[2])
              /\ (Len(tr) >= 2 /\ Failed(tr[2]) /\ ~BusyAnswer(tr[2])) =>
                    /\ c.pc = "idle" /\ c.result = "raised"
                    /\ c.log[Len(c.log)] = tr[2]
              /\ (Len(tr) = 5 /\ Failed(tr[5])) =>
                    /\ c.pc = "idle" /\ c.result = "raised"
                    /\ c.log[Len(c.log)] = tr[5]

\* C26: a slew was answered busy twice: it has sent the first goto, the
\* stop-goto, halted again, sent the second goto, and raised
C26_Witness ==
    \E t \in Tasks :
        LET tr == SlewTrace(tcall[t])
        IN /\ tcall[t].op = "slew" /\ tcall[t].result = "raised"
           /\ TraceNames(tr) = FullSlew
           /\ BusyAnswer(tr[2]) /\ BusyAnswer(tr[5])

\* C27: whenever telescope_slew_to_coordinates sends a goto, both stored
\* manual rates are zero and the joystick is not active at that moment
C27_GotoAfterHalt ==
    \A t \in Tasks : \A n \in DOMAIN tcall[t].log :
        LET e == tcall[t].log[n]
        IN (tcall[t].op = "slew" /\ e.cmd = "goto") =>
              /\ e.rate_x = 0 /\ e.rate_y = 0
              /\ ~e.active

(* ======================= Part 6: BLE provisioning ====================== *)
(* The frames of ble_packets.py (calculate_crc16, _build_frame,
   parse_notification) and the handshake of ble_provisioner.py (provision,
   its notification handler, _write_and_wait_for_config, _configure_sta,
   _await_packet).  A frame is a sequence of bytes; the first byte of the
   source's data[0] is data[1] here. *)

FRAME_HEADER == 170         \* ble_packets.py line 10: 0xAA
FRAME_END == 13             \* line 11: 0x0D
PROTOCOL_ID == 1            \* line 12
PACKAGE_ID == 0             \* line 13
TOTAL_ID == 1               \* line 14
RESERVED1_ID == 0           \* line 15
RESERVED2_ID == 0           \* line 16
CRC_INIT == 65535           \* line 33: 0xFFFF
CRC_POLY == 40961           \* line 40: 0xA001
MIN_FRAME_LEN == 12         \* line 111
PAYLOAD_START == 9          \* line 119
MaxBleNotes == 3            \* notifications of one run
MaxBleQueue == 2            \* packets waiting in the response queue
MaxBleWrites == 4           \* writes of one run that the model keeps
BleDeadline == 2            \* the overall deadline, in ticks of the clock

BleQuiet == UNCHANGED <<baseVars, focuser, telescope, tcall, ftp, exposure, settings, unreferenced,
                        overlapped>>

\* a ^ b on numbers of the given count of bits
RECURSIVE BitXor(_, _, _)
BitXor(a, b, bits) ==
    IF bits = 0 THEN 0
    ELSE (((a % 2) + (b % 2)) % 2) + 2 * BitXor(a \div 2, b \div 2, bits - 1)

\* lines 37-40: one round, a shift and a conditional xor
CrcRound ==
    [crc \in 0 .. 65535 |->
        IF crc % 2 = 1 THEN BitXor(crc \div 2, CRC_POLY, 16) ELSE crc \div 2]

\* line 36: the rounds of one byte
CrcRounds[crc \in 0 .. 65535, rounds \in 0 .. 8] ==
    IF rounds = 0 THEN crc ELSE CrcRounds[CrcRound[crc], rounds - 1]

\* calculate_crc16, lines 31-41; crc[n] is the value after n bytes
calculate_crc16(data) ==
    LET crc[n \in 0 .. Len(data)] ==
            IF n = 0 THEN CRC_INIT
            ELSE CrcRounds[BitXor(crc[n - 1], data[n], 16), 8]
    IN crc[Len(data)] % 65536

\* n.to_bytes(2, byteorder="big") and int.from_bytes
ToBytes2(n) == <<(n \div 256) % 256, n % 256>>
FromBytes2(hi, lo) == hi * 256 + lo

\* _build_frame, lines 44-59
BuildFrame(cmd, payload) ==
    LET header == <<FRAME_HEADER, PROTOCOL_ID, cmd % 256, PACKAGE_ID, TOTAL_ID,
                    RESERVED1_ID, RESERVED2_ID>>
        core == header \o ToBytes2(Len(payload)) \o payload
    IN core \o ToBytes2(calculate_crc16(core)) \o <<FRAME_END>>

\* _MESSAGE_TYPES, lines 91-101
MessageTypes == 0 .. 8

Rejected(error) == [accepted |-> FALSE, error |-> error, packet |-> NoPacket]

\* a parser that does not compare the checksums
ParseNotificationNoCrc(data) ==
    IF Len(data) < MIN_FRAME_LEN THEN Rejected("BLE packet too short")
    ELSE IF data[1] # FRAME_HEADER \/ data[Len(data)] # FRAME_END
    THEN Rejected("Invalid BLE frame markers")
    ELSE LET cmd == data[3]
             payload_end == PAYLOAD_START + FromBytes2(data[8], data[9])
         IN IF payload_end + 3 > Len(data) THEN Rejected("BLE payload length mismatch")
            ELSE IF cmd \notin MessageTypes THEN Rejected("Unknown BLE command")
            ELSE [accepted |-> TRUE, error |-> "-",
                  packet |-> [cmd |-> cmd,
                              payload |-> SubSeq(data, PAYLOAD_START + 1, payload_end)]]

\* parse_notification, lines 110-136; every error is a BlePacketError
parse_notification(data) ==
    IF Len(data) < MIN_FRAME_LEN THEN Rejected("BLE packet too short")
    ELSE IF data[1] # FRAME_HEADER \/ data[Len(data)] # FRAME_END
    THEN Rejected("Invalid BLE frame markers")
    ELSE LET cmd == data[3]
             payload_end == PAYLOAD_START + FromBytes2(data[8], data[9])
         IN IF payload_end + 3 > Len(data) THEN Rejected("BLE payload length mismatch")
            ELSE IF FromBytes2(data[payload_end + 1], data[payload_end + 2])
                       # calculate_crc16(SubSeq(data, 1, payload_end))
            THEN Rejected("BLE CRC mismatch")
            ELSE IF cmd \notin MessageTypes THEN Rejected("Unknown BLE command")
            ELSE [accepted |-> TRUE, error |-> "-",
                  packet |-> [cmd |-> cmd,
                              payload |-> SubSeq(data, PAYLOAD_START + 1, payload_end)]]

(* ---- the messages of the device ---- *)
DEFAULT_AP_IP == "192.168.88.1"     \* ble_provisioner.py lines 295, 327, 346
DesiredSsid == "home"               \* the ssid argument of provision

\* the messages a payload of one byte stands for: payload <<n>> decodes to
\* Catalog[n], the empty payload to the message of defaults
Catalog ==
    <<[code |-> 0, state |-> 2, wifi_mode |-> 2, ssid |-> "home", ip |-> "10.0.0.7"],
      [code |-> 0, state |-> 2, wifi_mode |-> 2, ssid |-> "home", ip |-> DEFAULT_AP_IP],
      [code |-> 0, state |-> 2, wifi_mode |-> 2, ssid |-> "other", ip |-> "10.0.0.7"],
      [code |-> 0, state |-> 1, wifi_mode |-> 2, ssid |-> "home", ip |-> "10.0.0.7"],
      [code |-> 0, state |-> 2, wifi_mode |-> 1, ssid |-> "home", ip |-> "10.0.0.7"],
      [code |-> 1, state |-> 2, wifi_mode |-> 2, ssid |-> "home", ip |-> "10.0.0.7"],
      [code |-> 0, state |-> 2, wifi_mode |-> 2, ssid |-> "home", ip |-> ""]>>

\* message.ParseFromString(payload_bytes), line 135
Decode(payload) == IF payload = <<>> THEN DefaultMessage ELSE Catalog[payload[1]]

BlePayloads == {<<>>} \cup {<<n>> : n \in DOMAIN Catalog}

\* the frames _build_frame makes for the commands 0..8 and for 9
BuiltFrames == {BuildFrame(cmd, payload) : cmd \in 0 .. 9, payload \in {<<>>, <<1>>, <<6>>}}

\* the frames the device answers with during provisioning
DeviceFrames ==
    {BuildFrame(1, payload) : payload \in BlePayloads}
       \cup {BuildFrame(3, payload) : payload \in {<<>>, <<1>>, <<2>>, <<6>>}}
       \cup {BuildFrame(0, <<6>>), BuildFrame(6, <<>>)}

\* frames that are damaged: a wrong first byte, a wrong last byte, a changed
\* checksum, a changed payload byte, a changed command byte, a length field
\* beyond the frame, a frame cut short, and bytes added before or after the
\* end marker
DamagedFrames ==
    LET f == BuildFrame(1, <<1>>)
        n == Len(f)
    IN {[f EXCEPT ![1] = 171], [f EXCEPT ![n] = 10], [f EXCEPT ![n - 1] = (@ + 1) % 256],
        [f EXCEPT ![n - 2] = (@ + 1) % 256], [f EXCEPT ![10] = 2], [f EXCEPT ![3] = 3],
        [f EXCEPT ![9] = 7], SubSeq(f, 1, n - 2), <<FRAME_HEADER, FRAME_END>>,
        SubSeq(f, 1, n - 1) \o <<0, FRAME_END>>, f \o <<FRAME_END>>, f \o <<0>>}

BleFrames == BuiltFrames \cup DeviceFrames \cup DamagedFrames

\* what the parser makes of each frame
Parsed == [f \in BleFrames |-> parse_notification(f)]

(* ---- provision ---- *)
\* lines 131-140: the results of provision
Succeeded(ip) == [success |-> TRUE, message |-> "Provisioning succeeded", sta_ip |-> ip]
FailedWith(message) == [success |-> FALSE, message |-> message, sta_ip |-> "-"]
EndBle(b, result) == [b EXCEPT !.pc = "done", !.result = result]

NonDefaultIp(ip) == ip # "" /\ ip # DEFAULT_AP_IP

\* a shortcut taken for the default address
AlreadyConfiguredDefaultIp(config, ssid) ==
    /\ config.state = 2 /\ config.wifi_mode = 2
    /\ config.ssid = ssid
    /\ config.ip # "" /\ config.ip = DEFAULT_AP_IP

\* _configure_sta, lines 290-296
AlreadyConfigured(config, ssid) ==
    /\ config.state = 2 /\ config.wifi_mode = 2
    /\ config.ssid = ssid
    /\ config.ip # "" /\ config.ip # DEFAULT_AP_IP

\* lines 89-122 and 253-257: the device is looked up, the handler is
\* registered, and the get-config command is written
BleProvision(found, ok) ==
    /\ ble.pc = "idle"
    /\ ble' = IF ~found THEN EndBle(ble, FailedWith("DWARF BLE device not found"))
              ELSE IF ~ok THEN EndBle([ble EXCEPT !.writes = Append(@, "getconfig")],
                                      FailedWith("Provisioning failed"))
              ELSE [ble EXCEPT !.pc = "await_config", !.writes = Append(@, "getconfig")]
    /\ BleQuiet

\* the notification handler, lines 101-112: a frame that does not parse is
\* logged and dropped, a parsed packet is put on the queue
BleNotify(frame) ==
    /\ ble.pc \in {"await_config", "await_sta"}
    /\ ble.notes < MaxBleNotes
    /\ Len(ble.queue) < MaxBleQueue
    /\ LET p == Parsed[frame]
       IN ble' = [ble EXCEPT !.notes = @ + 1,
                             !.queue = IF p.accepted THEN Append(@, p.packet) ELSE @,
                             !.last = [frame |-> frame, accepted |-> p.accepted,
                                       error |-> p.error, packet |-> p.packet]]
    /\ BleQuiet

\* the write is kept while the model has room for it
Written(writes, name) == IF Len(writes) < MaxBleWrites THEN Append(writes, name) ELSE writes

\* a wait that ends by its timer only when no packet is there
TimerDueWithoutDeadline(b) == b.queue = <<>>

\* _await_packet, lines 362-365: the wait raises TimeoutError when the
\* deadline has passed, or when no packet has come within the response timeout
TimerDue(b) == b.time >= BleDeadline \/ b.queue = <<>>

\* a wait that takes a packet whenever there is one
PacketDueWithoutDeadline(b) == b.queue # <<>>

\* _await_packet, lines 362-365: a packet is taken from the queue only before
\* the deadline
PacketDue(b) == b.time < BleDeadline /\ b.queue # <<>>

\* the clock of the event loop goes on while the call waits
BleTick ==
    /\ ble.pc \in {"await_config", "await_sta"}
    /\ ble.time < BleDeadline
    /\ ble' = [ble EXCEPT !.time = @ + 1]
    /\ BleQuiet

\* _await_packet, lines 362-365, with provision, lines 132-134
BleTimeout ==
    /\ ble.pc \in {"await_config", "await_sta"}
    /\ TimerDue(ble)
    /\ ble' = EndBle(ble, FailedWith("BLE provisioning timed out"))
    /\ BleQuiet

\* _await_packet, lines 365-368: a packet that is not expected is dropped
BleIgnore ==
    /\ ble.pc \in {"await_config", "await_sta"}
    /\ PacketDue(ble)
    /\ Head(ble.queue).cmd \notin (IF ble.pc = "await_config" THEN {0, 1} ELSE {0, 1, 3})
    /\ ble' = [ble EXCEPT !.queue = Tail(@)]
    /\ BleQuiet

\* _write_and_wait_for_config, lines 258-275, and the start of _configure_sta,
\* lines 288-308: the first answer is an error, or a config response that
\* either ends the run by the shortcut or makes it write the STA command
BleConfig(ok) ==
    /\ ble.pc = "await_config"
    /\ PacketDue(ble)
    /\ Head(ble.queue).cmd \in {0, 1}
    /\ LET packet == Head(ble.queue)
           message == Decode(packet.payload)
           b == [ble EXCEPT !.queue = Tail(@)]
           c == [b EXCEPT !.config = message, !.has_config = TRUE]
           w == [c EXCEPT !.writes = Append(@, "sta")]
       IN ble' = IF packet.cmd = 0
                 THEN EndBle(b, FailedWith("BLE error during configuration query"))
                 ELSE IF message.code # 0
                 THEN EndBle(c, FailedWith("DWARF returned error"))
                 ELSE IF AlreadyConfigured(message, DesiredSsid)
                 THEN EndBle(c, Succeeded(message.ip))
                 ELSE IF ~ok THEN EndBle(w, FailedWith("Provisioning failed"))
                 ELSE [w EXCEPT !.pc = "await_sta"]
    /\ BleQuiet

\* _configure_sta, lines 310-352: an error, an STA response or a config
\* notification; the loop ends with an address that is not the default one
BleSta(ok) ==
    /\ ble.pc = "await_sta"
    /\ PacketDue(ble)
    /\ Head(ble.queue).cmd \in {0, 1, 3}
    /\ LET packet == Head(ble.queue)
           message == Decode(packet.payload)
           b == [ble EXCEPT !.queue = Tail(@)]
           sta_ip == IF message.ip # "" THEN message.ip ELSE ble.sta_ip
           s == [b EXCEPT !.sta_ip = sta_ip]
       IN ble' = CASE packet.cmd = 0 ->
                        EndBle(b, FailedWith("BLE error while configuring STA"))
                   [] packet.cmd = 3 ->
                        IF message.code # 0
                        THEN EndBle(b, FailedWith("DWARF STA provisioning failed"))
                        ELSE IF NonDefaultIp(sta_ip) THEN EndBle(s, Succeeded(sta_ip))
                        ELSE IF ~ok
                        THEN EndBle([s EXCEPT !.writes = Written(@, "getconfig")],
                                    FailedWith("Provisioning failed"))
                        ELSE [s EXCEPT !.writes = Written(@, "getconfig")]
                   [] OTHER ->
                        IF message.code # 0
                        THEN EndBle(b, FailedWith("DWARF returned error"))
                        ELSE IF message.state = 2 /\ message.wifi_mode = 2
                                /\ NonDefaultIp(message.ip)
                        THEN EndBle([b EXCEPT !.sta_ip = message.ip],
                                    Succeeded(message.ip))
                        ELSE b
    /\ BleQuiet

InitBle ==
    /\ InitChannelAndSession
    /\ InitDevVars

NextBle ==
    \/ \E found \in BOOLEAN, ok \in BOOLEAN : BleProvision(found, ok)
    \/ \E frame \in BleFrames : BleNotify(frame)
    \/ BleTick
    \/ BleTimeout
    \/ BleIgnore
    \/ \E ok \in BOOLEAN : BleConfig(ok)
    \/ \E ok \in BOOLEAN : BleSta(ok)

SpecBle == InitBle /\ [][NextBle]_vars

\* the packets of a device that keeps answering: unrelated ones, config and
\* STA responses with the default address or none, an error, and good ones
FloodFrames ==
    {BuildFrame(6, <<>>), BuildFrame(1, <<2>>), BuildFrame(1, <<1>>), BuildFrame(1, <<4>>),
     BuildFrame(3, <<2>>), BuildFrame(3, <<>>), BuildFrame(3, <<1>>), BuildFrame(0, <<6>>)}

\* the notification handler, lines 101-112, for a device that sends without end
BleFlood(frame) ==
    /\ ble.pc \in {"await_config", "await_sta"}
    /\ Len(ble.queue) < MaxBleQueue
    /\ LET p == Parsed[frame]
       IN ble' = [ble EXCEPT !.queue = IF p.accepted THEN Append(@, p.packet) ELSE @]
    /\ BleQuiet

NextBleLive ==
    \/ \E found \in BOOLEAN, ok \in BOOLEAN : BleProvision(found, ok)
    \/ \E frame \in FloodFrames : BleFlood(frame)
    \/ BleTick
    \/ BleTimeout
    \/ BleIgnore
    \/ \E ok \in BOOLEAN : BleConfig(ok)
    \/ \E ok \in BOOLEAN : BleSta(ok)

\* the clock goes on and a timer that is due fires
SpecBleLive ==
    InitBle /\ [][NextBleLive]_vars /\ WF_vars(BleTick) /\ WF_vars(BleTimeout)

(* ---- claims about BLE provisioning ---- *)
\* the first config response has been received
InitialConfig == ble.has_config

\* C28 as the specification states it: whenever the initial config response
\* shows the desired SSID and an address other than the default one, the run
\* has ended successfully with that address and without an STA command.
C28_SsidAndIpSuffice ==
    (InitialConfig /\ ble.config.ssid = DesiredSsid /\ ble.config.ip # DEFAULT_AP_IP)
        => /\ ble.pc = "done"
           /\ ble.result = Succeeded(ble.config.ip)
           /\ ble.writes = <<"getconfig">>

\* C28: whenever the initial config response has code 0, state 2 and wifi
\* mode 2 and shows the desired SSID and an address that is neither empty nor
\* the default one, provisioning has ended successfully with that address and
\* the only command written to the device is the get-config command.
C28_AlreadyConfiguredShortcut ==
    (/\ InitialConfig
     /\ ble.config.code = 0 /\ ble.config.state = 2 /\ ble.config.wifi_mode = 2
     /\ ble.config.ssid = DesiredSsid
     /\ ble.config.ip \notin {"", DEFAULT_AP_IP})
        => /\ ble.pc = "done"
           /\ ble.result = Succeeded(ble.config.ip)
           /\ ble.writes = <<"getconfig">>

\* C28 witness: the shortcut has been taken
C28_Witness ==
    /\ InitialConfig
    /\ ble.config = Catalog[1]
    /\ ble.pc = "done"
    /\ ble.result = Succeeded("10.0.0.7")
    /\ ble.writes = <<"getconfig">>

\* the desired SSID and a good address, but the station is not connected:
\* the STA command is written
C28_StaWrittenWitness ==
    /\ InitialConfig
    /\ ble.config = Catalog[4]
    /\ ble.writes = <<"getconfig", "sta">>

\* the frames _build_frame makes, with the command and payload they carry
Built ==
    {[cmd |-> cmd, payload |-> payload, frame |-> BuildFrame(cmd, payload)] :
        cmd \in MessageTypes, payload \in {<<>>, <<1>>, <<6>>}}

\* the position of the CRC field of a frame, given by its length field
CrcField(frame) == PAYLOAD_START + FromBytes2(frame[8], frame[9])

\* the markers and the checksum of a frame are right
WellFormed(frame) ==
    /\ Len(frame) >= MIN_FRAME_LEN
    /\ frame[1] = FRAME_HEADER
    /\ frame[Len(frame)] = FRAME_END
    /\ CrcField(frame) + 3 <= Len(frame)
    /\ FromBytes2(frame[CrcField(frame) + 1], frame[CrcField(frame) + 2])
          = calculate_crc16(SubSeq(frame, 1, CrcField(frame)))

\* the frames of the model whose markers and checksum are right
WellFormedFrames == {frame \in BleFrames : WellFormed(frame)}

\* the CRC16/MODBUS check value: the checksum of the digits "123456789"
CrcOfDigits == calculate_crc16(<<49, 50, 51, 52, 53, 54, 55, 56, 57>>)

\* the handler has just run for a notification
Notified == ble'.notes = ble.notes + 1

\* C29: the checksum is the Modbus CRC16; a notification is accepted only if
\* its first byte is 0xAA, its last byte is 0x0D and its CRC field equals
\* the CRC16 of all bytes before that field; a frame that is rejected leaves
\* the response queue as it was, an accepted one adds its packet; and a
\* frame built by _build_frame for a command 0..8 is accepted with that
\* command and payload.
C29_ParseValidatesFrames ==
    [][Notified =>
        LET last == ble'.last
        IN /\ CrcOfDigits = 19255
           /\ last.accepted => last.frame \in WellFormedFrames
           /\ ~last.accepted => /\ ble'.queue = ble.queue
                                /\ last.error # "-"
           /\ last.accepted => ble'.queue = Append(ble.queue, last.packet)
           /\ \A b \in Built :
                 last.frame = b.frame
                    => /\ last.accepted
                       /\ last.packet = [cmd |-> b.cmd, payload |-> b.payload]]_vars

\* C29 witness: a frame whose checksum was changed has been dropped after a
\* good frame was queued
C29_Witness ==
    /\ ble.notes = 2
    /\ ~ble.last.accepted
    /\ ble.last.error = "BLE CRC mismatch"
    /\ Len(ble.queue) = 1
    /\ ble.queue[1] = [cmd |-> 1, payload |-> <<1>>]

\* a built frame has been accepted and its packet is the last of the queue
C29_AcceptedWitness ==
    /\ ble.last.accepted
    /\ ble.last.frame = BuildFrame(3, <<6>>)
    /\ ble.queue # <<>>
    /\ ble.queue[Len(ble.queue)] = [cmd |-> 3, payload |-> <<6>>]

\* bytes between the checksum and the end marker do not make a frame rejected
C29_TrailingBytesWitness ==
    /\ ble.last.accepted
    /\ Len(ble.last.frame) = 14
    /\ ble.last.frame[13] = 0
    /\ ble.last.packet = [cmd |-> 1, payload |-> <<1>>]

(* ==================== Part 7: waiting for a new photo ================== *)
(* ftp_client.py: wait_for_new_photo polls the newest entry of the device's
   FTP service and returns the first one that _is_new_entry accepts and that
   can be downloaded.  Timestamps are counted in microseconds; an entry is
   its timestamp and its path. *)

MaxPolls == 2               \* polls of one wait_for_new_photo call
MaxUploads == 2             \* files the device adds during the call
SLACK == 1                  \* ftp_client.py line 254: 1e-6 s

FtpQuiet == UNCHANGED <<baseVars, focuser, telescope, tcall, ble, exposure, settings, unreferenced,
                        overlapped>>

FtpTimestamps == {9, 10, 11, 12}
FtpPaths == {"a.jpg", "b.jpg"}
FtpEntries == [timestamp : FtpTimestamps, path : FtpPaths]
FtpBaselines == {<<>>, <<[timestamp |-> 10, path |-> "a.jpg"]>>}
Optional(S) == {<<>>} \cup {<<e>> : e \in S}

\* an entry is new as soon as its timestamp is greater
IsNewEntryWithoutSlack(entry, baseline) ==
    IF baseline = <<>> THEN TRUE
    ELSE IF entry.timestamp > baseline[1].timestamp THEN TRUE
    ELSE entry.path # baseline[1].path

\* _is_new_entry, lines 251-256
is_new_entry(entry, baseline) ==
    IF baseline = <<>> THEN TRUE
    ELSE IF entry.timestamp > baseline[1].timestamp + SLACK THEN TRUE
    ELSE entry.path # baseline[1].path

\* wait_for_new_photo, lines 64-76: the call starts with its baseline; the
\* deadline lies at least 0.1 s ahead, so the loop is entered
FtpWait(baseline) ==
    /\ ftp.pc = "idle"
    /\ ftp' = [ftp EXCEPT !.pc = "poll", !.baseline = baseline]
    /\ FtpQuiet

\* the device stores a file, which becomes the newest entry of the listing
FtpUpload(entry) ==
    /\ ftp.pc \in {"poll", "sleep"}
    /\ ftp.uploads < MaxUploads
    /\ ftp' = [ftp EXCEPT !.latest = <<entry>>, !.uploads = @ + 1]
    /\ FtpQuiet

\* lines 77-103, one round of the loop: the newest entry is listed (an FTP
\* error leaves no entry); an entry that is new is downloaded and returned,
\* unless the download fails
FtpPoll(listed, downloaded) ==
    /\ ftp.pc = "poll"
    /\ LET entry == IF listed THEN ftp.latest ELSE <<>>
           polled == [ftp EXCEPT !.polls = @ + 1, !.listed = entry,
                                 !.seen = @ \cup {e \in FtpEntries : entry = <<e>>}]
       IN ftp' = IF entry # <<>> /\ is_new_entry(entry[1], ftp.baseline) /\ downloaded
                 THEN [polled EXCEPT !.pc = "done", !.result = entry]
                 ELSE [polled EXCEPT !.pc = "sleep"]
    /\ FtpQuiet

\* lines 76 and 104-105: after the sleep the loop goes on, or the deadline
\* has passed and nothing is returned
FtpSleep(expired) ==
    /\ ftp.pc = "sleep"
    /\ expired \/ ftp.polls < MaxPolls
    /\ ftp' = IF expired THEN [ftp EXCEPT !.pc = "done", !.result = <<>>]
              ELSE [ftp EXCEPT !.pc = "poll"]
    /\ FtpQuiet

InitFtp ==
    /\ InitChannelAndSession
    /\ focuser = IdleFocuser
    /\ telescope = IdleTelescope
    /\ tcall = [c \in Callers |-> IdleTelCall]
    /\ ble = IdleBle
    /\ \E latest \in Optional(FtpEntries) : ftp = [IdleFtp EXCEPT !.latest = latest]
    /\ exposure = NoResolver
    /\ settings = NoSettings
    /\ unreferenced = FALSE
    /\ overlapped = FALSE

NextFtp ==
    \/ \E baseline \in FtpBaselines : FtpWait(baseline)
    \/ \E entry \in FtpEntries : FtpUpload(entry)
    \/ \E listed \in BOOLEAN, downloaded \in BOOLEAN : FtpPoll(listed, downloaded)
    \/ \E expired \in BOOLEAN : FtpSleep(expired)

SpecFtp == InitFtp /\ [][NextFtp]_vars

(* ---- claims about wait_for_new_photo ---- *)
\* the call has returned
Returned == ftp.pc = "done"

\* the entry is new as the specification defines it
NewRelativeTo(entry, baseline) ==
    \/ baseline = <<>>
    \/ entry.timestamp > baseline[1].timestamp + SLACK
    \/ entry.path # baseline[1].path

\* every entry the call has listed has the baseline's path and a timestamp
\* not greater than the baseline's
OnlyTheBaselineSeen ==
    /\ ftp.baseline # <<>>
    /\ \A e \in ftp.seen : /\ e.path = ftp.baseline[1].path
                            /\ e.timestamp <= ftp.baseline[1].timestamp

\* C30: a capture that wait_for_new_photo returns is the entry its last poll
\* listed, and that entry is new relative to the baseline: the baseline is
\* absent, or the entry's timestamp exceeds the baseline's by more than one
\* microsecond, or its path differs; and a call that only ever listed entries
\* with the baseline's path and a timestamp not greater than the baseline's
\* returns nothing.
C30_CaptureOnlyForNewEntry ==
    Returned =>
        /\ ftp.result # <<>> => /\ ftp.result = ftp.listed
                                /\ NewRelativeTo(ftp.result[1], ftp.baseline)
        /\ OnlyTheBaselineSeen => ftp.result = <<>>

\* C30 witness: nothing is returned after two polls that listed the
\* baseline's file, once unchanged and once with an older timestamp
C30_Witness ==
    /\ Returned
    /\ ftp.baseline # <<>>
    /\ ftp.polls = 2
    /\ ftp.seen = {[timestamp |-> 10, path |-> "a.jpg"], [timestamp |-> 9, path |-> "a.jpg"]}
    /\ ftp.result = <<>>

\* a capture is returned for the baseline's path with a later timestamp
C30_LaterTimestampWitness ==
    /\ Returned
    /\ ftp.baseline # <<>>
    /\ ftp.result = <<[timestamp |-> 12, path |-> "a.jpg"]>>

\* a capture is returned for another path with an older timestamp
C30_OtherPathWitness ==
    /\ Returned
    /\ ftp.baseline # <<>>
    /\ ftp.result = <<[timestamp |-> 9, path |-> "b.jpg"]>>

\* a capture is returned when there is no baseline
C30_NoBaselineWitness ==
    /\ Returned
    /\ ftp.baseline = <<>>
    /\ ftp.result # <<>>

\* the baseline's file one microsecond later is not new: nothing is returned
C30_WithinSlackWitness ==
    /\ Returned
    /\ ftp.baseline # <<>>
    /\ ftp.seen = {[timestamp |-> 11, path |-> "a.jpg"]}
    /\ ftp.polls = 2
    /\ ftp.result = <<>>

(* ====================== Part 8: exposure resolver ===================== *)
(* exposure.py: from_config makes the option list of a resolver from the
   entries of the capability metadata, choose_index picks the option nearest
   to a duration.  Durations are counted in units of 0.1 s; an option is its
   device index and its seconds. *)

MaxOptions == 3             \* entries of the metadata
MaxChooses == 2             \* choose_index calls on one resolver

ExpQuiet == UNCHANGED <<baseVars, focuser, telescope, tcall, ble, ftp, settings, unreferenced,
                        overlapped>>

ExpIndices == {0, 1, 2}
ExpSeconds == {0, 1, 2, 3}
ExpDurations == {-1, 0, 1, 2, 3, 5}
ExposureOption == [index : ExpIndices, seconds : ExpSeconds]
RECURSIVE SeqsUpTo(_, _)
SeqsUpTo(S, n) ==
    IF n = 0 THEN {<<>>}
    ELSE SeqsUpTo(S, n - 1) \cup {Append(q, e) : q \in {r \in SeqsUpTo(S, n - 1) : Len(r) = n - 1}, e \in S}
ExpConfigs == SeqsUpTo(ExposureOption, MaxOptions)

\* _extract_camera_exposures, lines 106-116: entries without a positive
\* duration are left out
RECURSIVE ExtractOptions(_)
ExtractOptions(entries) ==
    IF entries = <<>> THEN <<>>
    ELSE IF Head(entries).seconds <= 0 THEN ExtractOptions(Tail(entries))
    ELSE <<Head(entries)>> \o ExtractOptions(Tail(entries))

\* from_config, lines 43-50: one option for each index, at the place of the
\* first entry with that index, with the smallest seconds of its entries
RECURSIVE Dedup(_, _)
Dedup(options, dedup) ==
    IF options = <<>> THEN dedup
    ELSE LET option == Head(options)
             at == {j \in DOMAIN dedup : dedup[j].index = option.index}
         IN Dedup(Tail(options),
                  IF at = {} THEN Append(dedup, option)
                  ELSE LET j == CHOOSE k \in at : TRUE
                       IN IF option.seconds < dedup[j].seconds
                          THEN [dedup EXCEPT ![j] = option] ELSE dedup)

\* sorted(..., key=seconds), line 51: the sort is stable
RECURSIVE SortedBySeconds(_)
SortedBySeconds(options) ==
    IF options = <<>> THEN <<>>
    ELSE LET n == Len(options)
             front == SortedBySeconds(SubSeq(options, 1, n - 1))
             last == options[n]
             keep == Cardinality({j \in DOMAIN front : front[j].seconds <= last.seconds})
         IN SubSeq(front, 1, keep) \o <<last>> \o SubSeq(front, keep + 1, n - 1)

\* from_config, lines 36-54
FromConfig(config) == SortedBySeconds(Dedup(ExtractOptions(config), <<>>))

\* line 197: the key of min
Distance(option, target) == Abs(option.seconds - target)

\* an option takes the place of the best one when it is as near
NearerOrAsNear(option, best, target) == Distance(option, target) <= Distance(best, target)

\* min(), line 197: an option takes the place of the best one only when it
\* is nearer
Nearer(option, best, target) == Distance(option, target) < Distance(best, target)

RECURSIVE MinFrom(_, _, _, _)
MinFrom(options, i, best, target) ==
    IF i > Len(options) THEN best
    ELSE MinFrom(options, i + 1,
                 IF Nearer(options[i], options[best], target) THEN i ELSE best, target)

\* choose_index, lines 193-198
choose_index(options, duration) ==
    IF options = <<>> \/ duration <= 0 THEN <<>>
    ELSE <<options[MinFrom(options, 2, 1, duration)].index>>

\* session.py line 1203: the resolver is made from the metadata; from_config
\* returns no resolver when there are no options (lines 40-41, 52-53)
ExpFromConfig ==
    /\ exposure.calls = 0 /\ ~exposure.resolver
    /\ FromConfig(exposure.config) # <<>>
    /\ exposure' = [exposure EXCEPT !.options = FromConfig(exposure.config),
                                     !.resolver = TRUE]
    /\ ExpQuiet

\* ExposureResolver(options): a resolver made from a list as it is
ExpConstruct ==
    /\ exposure.calls = 0 /\ ~exposure.resolver
    /\ exposure' = [exposure EXCEPT !.options = exposure.config, !.resolver = TRUE]
    /\ ExpQuiet

\* session.py line 1150: choose_index on the resolver
ExpChoose(duration) ==
    /\ exposure.resolver
    /\ exposure.calls < MaxChooses
    /\ exposure' = [exposure EXCEPT !.calls = @ + 1,
                                     !.duration = duration,
                                     !.result = choose_index(exposure.options, duration),
                                     !.prev_duration = exposure.duration,
                                     !.prev_result = exposure.result]
    /\ ExpQuiet

InitExposure ==
    /\ InitChannelAndSession
    /\ focuser = IdleFocuser
    /\ telescope = IdleTelescope
    /\ tcall = [c \in Callers |-> IdleTelCall]
    /\ ble = IdleBle
    /\ ftp = IdleFtp
    /\ \E config \in ExpConfigs : exposure = [NoResolver EXCEPT !.config = config]
    /\ settings = NoSettings
    /\ unreferenced = FALSE
    /\ overlapped = FALSE

NextExposure ==
    \/ ExpFromConfig
    \/ ExpConstruct
    \/ \E duration \in ExpDurations : ExpChoose(duration)

SpecExposure == InitExposure /\ [][NextExposure]_vars

(* ---- claims about the exposure resolver ---- *)
\* choose_index has been called
Chosen == exposure.calls > 0

\* the places of the options nearest to the duration
Nearest(options, duration) ==
    {i \in DOMAIN options :
        \A j \in DOMAIN options : Distance(options[i], duration) <= Distance(options[j], duration)}

\* C31: choose_index returns no index for a duration <= 0 or a resolver
\* without options; otherwise it returns the index of an option of the
\* resolver nearest to the duration, the first of them in the order of the
\* resolver's list when several are equally near; and a second call with the
\* same duration on the same resolver returns the same index.
C31_ChooseIndexNearestFirst ==
    Chosen =>
        LET options == exposure.options
            duration == exposure.duration
        IN /\ (duration <= 0 \/ options = <<>>) => exposure.result = <<>>
           /\ (duration > 0 /\ options # <<>>) =>
                 \E i \in Nearest(options, duration) :
                    /\ exposure.result = <<options[i].index>>
                    /\ \A j \in Nearest(options, duration) : i <= j
           /\ (exposure.calls > 1 /\ exposure.prev_duration = duration)
                 => exposure.prev_result = exposure.result

\* C31 witness: a resolver made from metadata with three options, asked
\* twice for the duration midway between the first two, has answered twice
\* with the index of the first
C31_Witness ==
    /\ Chosen
    /\ exposure.calls = 2
    /\ exposure.config = <<[index |-> 2, seconds |-> 1], [index |-> 0, seconds |-> 3],
                            [index |-> 1, seconds |-> 3]>>
    /\ exposure.options = exposure.config
    /\ exposure.duration = 2 /\ exposure.prev_duration = 2
    /\ exposure.result = <<2>> /\ exposure.prev_result = <<2>>

\* from_config orders the options by their seconds: of two equally near
\* options the shorter one is returned, also when the metadata lists it later
C31_SortedTieWitness ==
    /\ Chosen
    /\ exposure.config = <<[index |-> 0, seconds |-> 3], [index |-> 1, seconds |-> 1]>>
    /\ exposure.options = <<[index |-> 1, seconds |-> 1], [index |-> 0, seconds |-> 3]>>
    /\ exposure.duration = 2
    /\ exposure.result = <<1>>

\* no index for a duration of zero, and none from a resolver without options
C31_NoIndexWitness ==
    /\ Chosen
    /\ exposure.calls = 2
    /\ exposure.options # <<>> /\ exposure.duration = 0 /\ exposure.result = <<>>
    /\ exposure.prev_duration = 5 /\ exposure.prev_result # <<>>

(* =================== Part 9: gain and filter settings ================= *)
(* _ensure_gain_settings, _ensure_selected_filter, _ensure_default_filter,
   set_filter_position and _apply_filter_option of session.py, with the
   session not in simulation.  settings.now holds the fields of camera_state,
   settings.before their values when the last call began, settings.sent the
   commands of the last call, prev_sent those of the call before, and gain_ok and filter_ok the argument of the
   last gain-index and filter command the device acknowledged. *)

MaxStarts == 3              \* camera_start_exposure calls of one run
MaxSelects == 1             \* set_filter_position calls of one run
MaxGain == 255              \* session.py line 2039

SetQuiet == UNCHANGED <<baseVars, focuser, telescope, tcall, ble, ftp, exposure, unreferenced,
                        overlapped>>

\* the gains the driver asks for: none, and values inside and outside 0..255
Gains == {<<>>, <<-3>>, <<10>>, <<300>>}

\* _get_filter_options: the filters of the device; the last one cannot be
\* switched by a command
FilterOptions ==
    <<[label |-> "vis", controllable |-> TRUE],
      [label |-> "astro", controllable |-> TRUE],
      [label |-> "duo", controllable |-> FALSE]>>
Positions == {-1, 0, 1, 2, 3}
DefaultPosition == 0        \* lines 1639-1656: the place of the label "vis"

SetCmd(name, arg, ok) == [cmd |-> name, arg |-> arg, ok |-> ok]

\* a result of a part of a call: the fields, the commands sent, and whether
\* the part raised
Part(st, sent, raised) == [st |-> st, sent |-> sent, raised |-> raised]

\* line 2039
ClampGain(g) == IF g < 0 THEN 0 ELSE IF g > MaxGain THEN MaxGain ELSE g

\* a function that records the gain whatever the device answered
EnsureGainSettingsRecordAlways(st, modeOk, indexOk) ==
    IF st.requested_gain = <<>> THEN Part(st, <<>>, FALSE)
    ELSE LET gain_index == ClampGain(st.requested_gain[1])
         IN IF st.applied_gain_index = <<gain_index>> THEN Part(st, <<>>, FALSE)
            ELSE Part([st EXCEPT !.applied_gain_index = <<gain_index>>],
                      <<SetCmd("gain_mode", 1, modeOk),
                        SetCmd("gain_index", gain_index, indexOk)>>, FALSE)

\* _ensure_gain_settings, lines 2028-2071
EnsureGainSettings(st, modeOk, indexOk) ==
    IF st.requested_gain = <<>> THEN Part(st, <<>>, FALSE)
    ELSE LET gain_index == ClampGain(st.requested_gain[1])
         IN IF st.applied_gain_index = <<gain_index>> THEN Part(st, <<>>, FALSE)
            ELSE Part(IF indexOk THEN [st EXCEPT !.applied_gain_index = <<gain_index>>]
                      ELSE st,
                      <<SetCmd("gain_mode", 1, modeOk),
                        SetCmd("gain_index", gain_index, indexOk)>>, FALSE)

\* _apply_filter_option, lines 1532-1583
ApplyFilterOption(st, position, ok) ==
    IF ~FilterOptions[position + 1].controllable THEN Part(st, <<>>, TRUE)
    ELSE Part(IF ok THEN [st EXCEPT !.filter_index = <<position>>,
                                    !.filter_name = FilterOptions[position + 1].label]
              ELSE st,
              <<SetCmd("filter", position, ok)>>, ~ok)

\* set_filter_position, lines 1596-1611
SetFilterPosition(st, position, wsOk, ok) ==
    IF position < 0 \/ position >= Len(FilterOptions) THEN Part(st, <<>>, TRUE)
    ELSE IF /\ st.filter_index = <<position>>
            /\ st.filter_name = FilterOptions[position + 1].label
    THEN Part(st, <<>>, FALSE)
    ELSE IF ~wsOk THEN Part(st, <<>>, TRUE)
    ELSE ApplyFilterOption(st, position, ok)

\* _ensure_default_filter, lines 1613-1677
EnsureDefaultFilter(st, wsOk, ok, okAgain) ==
    IF st.filter_name = FilterOptions[DefaultPosition + 1].label
    THEN Part([st EXCEPT !.filter_index = IF @ = <<>> THEN <<DefaultPosition>> ELSE @],
              <<>>, FALSE)
    ELSE LET first == SetFilterPosition(st, DefaultPosition, wsOk, ok)
         IN IF ~first.raised THEN first
            ELSE LET again == ApplyFilterOption(first.st, DefaultPosition, okAgain)
                 IN Part(again.st, first.sent \o again.sent, FALSE)

\* _ensure_selected_filter, lines 1679-1727
EnsureSelectedFilter(st, wsOk, ok, okAgain) ==
    IF st.filter_index = <<>> THEN EnsureDefaultFilter(st, wsOk, ok, okAgain)
    ELSE LET index == st.filter_index[1]
             cleared == [st EXCEPT !.filter_index = <<>>, !.filter_name = ""]
         IN IF index < 0 \/ index >= Len(FilterOptions)
            THEN EnsureDefaultFilter(cleared, wsOk, ok, okAgain)
            ELSE IF ~FilterOptions[index + 1].controllable
            THEN Part([st EXCEPT !.filter_name =
                          IF @ = "" THEN FilterOptions[index + 1].label ELSE @],
                      <<>>, FALSE)
            ELSE IF st.filter_name = FilterOptions[index + 1].label
            THEN Part(st, <<>>, FALSE)
            ELSE LET first == ApplyFilterOption(st, index, ok)
                 IN IF ~first.raised \/ st.filter_name # "" THEN
                        Part(first.st, first.sent, FALSE)
                    ELSE LET rest == EnsureDefaultFilter(cleared, wsOk, okAgain, okAgain)
                         IN Part(rest.st, first.sent \o rest.sent, FALSE)

\* the argument of the last command of that name the device acknowledged
RECURSIVE LastOk(_, _, _)
LastOk(sent, name, earlier) ==
    IF sent = <<>> THEN earlier
    ELSE LastOk(Tail(sent), name,
                IF Head(sent).cmd = name /\ Head(sent).ok THEN <<Head(sent).arg>>
                ELSE earlier)

Used(op, before, part) ==
    [settings EXCEPT !.now = part.st, !.before = before, !.sent = part.sent,
                     !.prev_sent = settings.sent, !.op = op,
                     !.gain_ok = LastOk(part.sent, "gain_index", @),
                     !.filter_ok = LastOk(part.sent, "filter", @)]

\* devices/camera.py line 546 and camera_start_exposure, lines 1037-1038:
\* the driver's gain is stored, then the gain and the filter are ensured
CamSettings(gain, modeOk, indexOk, wsOk, ok, okAgain) ==
    /\ settings.starts < MaxStarts
    /\ LET before == [settings.now EXCEPT !.requested_gain = gain]
           g == EnsureGainSettings(before, modeOk, indexOk)
           f == EnsureSelectedFilter(g.st, wsOk, ok, okAgain)
       IN settings' = [Used("start", before, Part(f.st, g.sent \o f.sent, FALSE))
                          EXCEPT !.starts = @ + 1]
    /\ SetQuiet

\* the filter wheel's set_filter_position
FilterSelect(position, wsOk, ok) ==
    /\ settings.selects < MaxSelects
    /\ settings' = [Used("select", settings.now,
                         SetFilterPosition(settings.now, position, wsOk, ok))
                       EXCEPT !.selects = @ + 1]
    /\ SetQuiet

InitSettings ==
    /\ InitChannelAndSession
    /\ InitDevVars

NextSettings ==
    \/ \E gain \in Gains, modeOk \in BOOLEAN, indexOk \in BOOLEAN, wsOk \in BOOLEAN,
          ok \in BOOLEAN, okAgain \in BOOLEAN :
          CamSettings(gain, modeOk, indexOk, wsOk, ok, okAgain)
    \/ \E position \in Positions, wsOk \in BOOLEAN, ok \in BOOLEAN :
          FilterSelect(position, wsOk, ok)

SpecSettings == InitSettings /\ [][NextSettings]_vars

(* ---- claims about the gain and filter settings ---- *)
\* the commands of that name among the commands of a call
Named(sent, names) == {n \in DOMAIN sent : sent[n].cmd \in names}

\* the last call was a camera_start_exposure
Started == settings.op = "start"

\* the gain requested in the last call, clamped
RequestedIndex == <<ClampGain(settings.before.requested_gain[1])>>

\* when the last call began, the selected filter was recorded as applied
FilterApplied(st) ==
    /\ st.filter_index # <<>>
    /\ st.filter_index[1] \in 0 .. Len(FilterOptions) - 1
    /\ st.filter_name = FilterOptions[st.filter_index[1] + 1].label

\* C33: the recorded gain index and filter position are those of the last
\* gain-index and filter command the device acknowledged, so a failed
\* application is not recorded; a camera_start_exposure whose requested gain
\* is already recorded sends no gain command and one whose selected filter is
\* already recorded sends no filter command; and a call that finds the
\* requested gain not recorded sends the gain commands, and one that finds no
\* filter recorded sends a filter command.
C33_SettingsAppliedOnce ==
    /\ settings.now.applied_gain_index = settings.gain_ok
    /\ settings.now.filter_index = settings.filter_ok
    /\ (Started /\ settings.before.requested_gain # <<>>) =>
          IF settings.before.applied_gain_index = RequestedIndex
          THEN Named(settings.sent, {"gain_mode", "gain_index"}) = {}
          ELSE /\ \E n \in Named(settings.sent, {"gain_index"}) :
                     /\ <<settings.sent[n].arg>> = RequestedIndex
                     /\ settings.now.applied_gain_index =
                           IF settings.sent[n].ok THEN RequestedIndex
                           ELSE settings.before.applied_gain_index
               /\ Named(settings.sent, {"gain_mode"}) # {}
    /\ Started =>
          IF FilterApplied(settings.before)
          THEN /\ Named(settings.sent, {"filter"}) = {}
               /\ settings.now.filter_index = settings.before.filter_index
          ELSE Named(settings.sent, {"filter"}) # {}

\* C33 witness: the first call's gain and filter commands failed, the second
\* call sent them again and they were acknowledged
C33_Witness ==
    /\ Started /\ settings.starts = 2 /\ settings.selects = 0
    /\ settings.before.requested_gain = <<10>>
    /\ \E n \in Named(settings.prev_sent, {"gain_index"}) :
          settings.prev_sent[n].arg = 10 /\ ~settings.prev_sent[n].ok
    /\ \A n \in Named(settings.prev_sent, {"filter"}) : ~settings.prev_sent[n].ok
    /\ Named(settings.prev_sent, {"filter"}) # {}
    /\ \E n \in Named(settings.sent, {"gain_index"}) :
          settings.sent[n].arg = 10 /\ settings.sent[n].ok
    /\ \E n \in Named(settings.sent, {"filter"}) : settings.sent[n].ok
    /\ settings.now.applied_gain_index = <<10>>
    /\ settings.now.filter_index = <<DefaultPosition>>

\* the third call of the same run, with the same gain, sends nothing
C33_SkippedWitness ==
    /\ Started /\ settings.starts = 3 /\ settings.selects = 0
    /\ settings.before.requested_gain = <<10>>
    /\ settings.before.applied_gain_index = <<10>>
    /\ settings.prev_sent # <<>>
    /\ settings.sent = <<>>
    /\ settings.now.filter_index = <<DefaultPosition>>

\* a filter chosen on the filter wheel is not sent again by the next call
C33_SelectedWitness ==
    /\ Started /\ settings.selects = 1
    /\ settings.prev_sent = <<SetCmd("filter", 1, TRUE)>>
    /\ settings.before.filter_index = <<1>>
    /\ Named(settings.sent, {"filter"}) = {}

(* ---- claims about the end of provisioning ---- *)
Awaiting == ble.pc \in {"await_config", "await_sta"}
Ended == ble.pc = "done"
TimedOut == FailedWith("BLE provisioning timed out")

\* a reported success carries an address that is neither empty nor the default
SuccessOnlyWithIp ==
    (Ended /\ ble.result.success) => ble.result.sta_ip \notin {"", "-", DEFAULT_AP_IP}

\* at the deadline the call takes no packet and writes nothing: its only
\* step is the failure by timeout
NothingAfterDeadline ==
    (Awaiting /\ ble.time >= BleDeadline) =>
        \/ ble'.pc = "done" /\ ble'.result = TimedOut
        \/ /\ ble'.pc = ble.pc /\ ble'.writes = ble.writes
           /\ Len(ble'.queue) >= Len(ble.queue)

\* C34: provision reports success only with an address that is neither
\* empty nor the default one; once the overall deadline is reached it takes
\* no further packet and ends with the time-out failure; and every run that
\* has begun to wait ends with a result, however many packets without such an
\* address the device keeps sending.
C34_EndsByDeadline ==
    /\ []SuccessOnlyWithIp
    /\ [][NothingAfterDeadline]_vars
    /\ (Awaiting ~> Ended)

\* C34 witness: the run has ended by the time-out at the deadline with
\* packets still waiting, after an STA response with the default address made
\* it ask for the config again
C34_Witness ==
    /\ Ended /\ ble.result = TimedOut
    /\ ble.time = BleDeadline
    /\ ble.sta_ip = DEFAULT_AP_IP
    /\ Len(ble.queue) = MaxBleQueue
    /\ ble.writes = <<"getconfig", "sta", "getconfig", "getconfig">>

\* the run has ended with the address of an STA response
C34_SuccessWitness ==
    /\ Ended /\ ble.result = Succeeded("10.0.0.7")
    /\ ble.writes = <<"getconfig", "sta">>

====
